---- MODULE Spec2Model ----
(***************************************************************************)
(* A model of the AnveshAI video generator: the mini-DSL front-end         *)
(* (video_engine/dsl_parser.py), the movement engine and frame compositor  *)
(* (video_engine/renderer.py), the request pipeline                        *)
(* (video_engine/pipeline.py) and the two HTTP handlers of main.py.        *)
(*                                                                         *)
(* DSL text is modelled as TLA+ strings and processed character by         *)
(* character; floats are modelled as exact decimals with FracDigits        *)
(* decimals, with NaN and +/-infinity as separate values.                  *)
(***************************************************************************)
EXTENDS Integers, Sequences, FiniteSets, TLC

(***************************************************************************)
(* Program constants of video_engine/constants.py.                         *)
(***************************************************************************)
MAX_OBJECTS == 50
MAX_DURATION == 6
MAX_FPS == 24
MAX_FRAMES == 300
MAX_WIDTH == 1280
MAX_HEIGHT == 720
ALLOWED_COMMANDS == {"BACKGROUND", "TEXT", "SHAPE", "MOVE", "FPS", "DURATION"}
ALLOWED_SHAPE_TYPES == {"CIRCLE", "RECT"}
ALLOWED_EASE_TYPES == {"linear", "ease-in", "ease-out"}

(***************************************************************************)
(* Strings.                                                                *)
(***************************************************************************)
Ch(s, i) == SubSeq(s, i, i)

Rest(s, i) == SubSeq(s, i, Len(s))

UpperMap ==
  [a |-> "A", b |-> "B", c |-> "C", d |-> "D", e |-> "E", f |-> "F", g |-> "G",
   h |-> "H", i |-> "I", j |-> "J", k |-> "K", l |-> "L", m |-> "M", n |-> "N",
   o |-> "O", p |-> "P", q |-> "Q", r |-> "R", s |-> "S", t |-> "T", u |-> "U",
   v |-> "V", w |-> "W", x |-> "X", y |-> "Y", z |-> "Z"]

LowerMap ==
  [A |-> "a", B |-> "b", C |-> "c", D |-> "d", E |-> "e", F |-> "f", G |-> "g",
   H |-> "h", I |-> "i", J |-> "j", K |-> "k", L |-> "l", M |-> "m", N |-> "n",
   O |-> "o", P |-> "p", Q |-> "q", R |-> "r", S |-> "s", T |-> "t", U |-> "u",
   V |-> "v", W |-> "w", X |-> "x", Y |-> "y", Z |-> "z"]

RECURSIVE MapChars(_, _)
MapChars(s, map) ==
  IF s = "" THEN ""
  ELSE LET c == Ch(s, 1)
       IN  (IF c \in DOMAIN map THEN map[c] ELSE c) \o MapChars(Rest(s, 2), map)

\* str.upper() and str.lower() on ASCII text
Upper(s) == MapChars(s, UpperMap)

Lower(s) == MapChars(s, LowerMap)

Whitespace == {" ", "\t", "\r", "\n"}

RECURSIVE LStrip(_)
LStrip(s) ==
  IF s # "" /\ Ch(s, 1) \in Whitespace THEN LStrip(Rest(s, 2)) ELSE s

RECURSIVE RStrip(_)
RStrip(s) ==
  IF s # "" /\ Ch(s, Len(s)) \in Whitespace
  THEN RStrip(SubSeq(s, 1, Len(s) - 1))
  ELSE s

\* str.strip()
Strip(s) == RStrip(LStrip(s))

\* str.split(sep) for a one-character separator
RECURSIVE SplitFrom(_, _, _, _)
SplitFrom(s, sep, i, cur) ==
  IF i > Len(s) THEN <<cur>>
  ELSE IF Ch(s, i) = sep
       THEN <<cur>> \o SplitFrom(s, sep, i + 1, "")
       ELSE SplitFrom(s, sep, i + 1, cur \o Ch(s, i))

Split(s, sep) == SplitFrom(s, sep, 1, "")

\* str.split('\n') on a whole document: the pieces between the newlines,
\* located by the positions of the newlines
SplitLines(s) ==
  LET cuts == {i \in 1..Len(s) : Ch(s, i) = "\n"}
      n == Cardinality(cuts)
      cut(k) == CHOOSE i \in cuts : Cardinality({j \in cuts : j < i}) = k - 1
      first(k) == IF k = 1 THEN 1 ELSE cut(k - 1) + 1
      last(k) == IF k = n + 1 THEN Len(s) ELSE cut(k) - 1
  IN  [k \in 1..(n + 1) |-> SubSeq(s, first(k), last(k))]

Digits == {"0", "1", "2", "3", "4", "5", "6", "7", "8", "9"}

DigitVal ==
  ("0" :> 0) @@ ("1" :> 1) @@ ("2" :> 2) @@ ("3" :> 3) @@ ("4" :> 4) @@
  ("5" :> 5) @@ ("6" :> 6) @@ ("7" :> 7) @@ ("8" :> 8) @@ ("9" :> 9)

AllDigits(s) == s # "" /\ \A i \in 1..Len(s) : Ch(s, i) \in Digits

RECURSIVE DigitsValue(_, _)
DigitsValue(s, acc) ==
  IF s = "" THEN acc ELSE DigitsValue(Rest(s, 2), 10 * acc + DigitVal[Ch(s, 1)])

\* The sign of a numeric literal and the text after it
SignOf(s) == IF s # "" /\ Ch(s, 1) = "-" THEN -1 ELSE 1

Unsigned(s) == IF s # "" /\ Ch(s, 1) \in {"-", "+"} THEN Rest(s, 2) ELSE s

(***************************************************************************)
(* int(text): surrounding whitespace, an optional sign, decimal digits;    *)
(* anything else raises ValueError (ok = FALSE).                           *)
(***************************************************************************)
ParseInt(text) ==
  LET t == Strip(text)
      u == Unsigned(t)
  IN  IF AllDigits(u)
      THEN [ok |-> TRUE, v |-> SignOf(t) * DigitsValue(u, 0)]
      ELSE [ok |-> FALSE, v |-> 0]

(***************************************************************************)
(* Floats: a finite value is a whole number of units of 10^-FracDigits.    *)
(***************************************************************************)
\* the decimals a float of the model carries
FracDigits == 3

FScale == 10 ^ FracDigits

Num(m) == [k |-> "num", m |-> m]

NaN == [k |-> "nan", m |-> 0]

PosInf == [k |-> "inf", m |-> 1]

NegInf == [k |-> "inf", m |-> -1]

\* a < b on floats: every comparison with NaN is false
FLt(a, b) ==
  IF a.k = "nan" \/ b.k = "nan" THEN FALSE
  ELSE IF a.k = "inf" THEN a.m < 0 /\ ~(b.k = "inf" /\ b.m < 0)
  ELSE IF b.k = "inf" THEN b.m > 0
  ELSE a.m < b.m

FGt(a, b) == FLt(b, a)

FLe(a, b) == a.k # "nan" /\ b.k # "nan" /\ ~FLt(b, a)

\* Python's min(a, b) and max(a, b): the first argument unless the second beats it
PyMin(a, b) == IF FLt(b, a) THEN b ELSE a

PyMax(a, b) == IF FGt(b, a) THEN b ELSE a

RECURSIVE PadRight(_, _)
PadRight(s, n) == IF Len(s) >= n THEN s ELSE PadRight(s \o "0", n)

(***************************************************************************)
(* float(text): "nan", "inf"/"infinity" (any case, optional sign), or      *)
(* [sign]digits[.digits] with at most FracDigits decimals; anything else   *)
(* raises ValueError (ok = FALSE).                                         *)
(***************************************************************************)
ParseFloat(text) ==
  LET t == Strip(text)
      u == Unsigned(t)
      lo == Lower(u)
      parts == Split(u, ".")
      whole == parts[1]
      frac == IF Len(parts) = 2 THEN parts[2] ELSE ""
      wOk == whole = "" \/ AllDigits(whole)
      fOk == frac = "" \/ (AllDigits(frac) /\ Len(frac) <= FracDigits)
  IN  IF lo = "nan" THEN [ok |-> TRUE, v |-> NaN]
      ELSE IF lo \in {"inf", "infinity"}
           THEN [ok |-> TRUE, v |-> IF SignOf(t) < 0 THEN NegInf ELSE PosInf]
      ELSE IF Len(parts) <= 2 /\ wOk /\ fOk /\ (whole # "" \/ frac # "")
           THEN [ok |-> TRUE,
                 v |-> Num(SignOf(t) *
                           (DigitsValue(whole, 0) * FScale
                            + DigitsValue(PadRight(frac, FracDigits), 0)))]
      ELSE [ok |-> FALSE, v |-> NaN]

\* int(x) of a float product: truncation toward zero
TruncDiv(n, d) == IF n >= 0 THEN n \div d ELSE -((-n) \div d)

(***************************************************************************)
(* tokenize_line                                                           *)
(***************************************************************************)
\* The loop body with an unquoted space that flushes the buffer even when
\* it is empty
TokenizeCharFlushEmpty(st, char) ==
  CASE char = "\"" /\ ~st.in_quotes -> [st EXCEPT !.in_quotes = TRUE]
    [] char = "\"" /\ st.in_quotes ->
         [tokens |-> Append(st.tokens, st.current), current |-> "", in_quotes |-> FALSE]
    [] char = " " /\ ~st.in_quotes ->
         [st EXCEPT !.tokens = Append(@, st.current), !.current = ""]
    [] OTHER -> [st EXCEPT !.current = @ \o char]

\* The loop body of tokenize_line for one character
TokenizeChar(st, char) ==
  CASE char = "\"" /\ ~st.in_quotes -> [st EXCEPT !.in_quotes = TRUE]
    [] char = "\"" /\ st.in_quotes ->
         [tokens |-> Append(st.tokens, st.current), current |-> "", in_quotes |-> FALSE]
    [] char = " " /\ ~st.in_quotes ->
         IF st.current # ""
         THEN [st EXCEPT !.tokens = Append(@, st.current), !.current = ""]
         ELSE st
    [] OTHER -> [st EXCEPT !.current = @ \o char]

\* The loop over the characters lo..hi in order.  The range is split in
\* halves and the state after the first half is computed before the second
\* half is entered, which keeps the evaluation shallow on long lines.
RECURSIVE TokenizeRange(_, _, _, _)
TokenizeRange(line, lo, hi, st) ==
  IF lo > hi THEN st
  ELSE IF lo = hi THEN TokenizeChar(st, Ch(line, lo))
  ELSE LET mid == (lo + hi) \div 2
       IN  CHOOSE after \in {TokenizeRange(line, mid + 1, hi, half) :
                               half \in {TokenizeRange(line, lo, mid, st)}} : TRUE

tokenize_line(line) ==
  LET st == TokenizeRange(line, 1, Len(line),
                          [tokens |-> <<>>, current |-> "", in_quotes |-> FALSE])
  IN  IF st.current # "" THEN Append(st.tokens, st.current) ELSE st.tokens

(***************************************************************************)
(* validate_color: VALID_COLORS_PATTERN is '#' and six hexadecimal digits. *)
(***************************************************************************)
HexDigits ==
  Digits \cup {"a", "b", "c", "d", "e", "f", "A", "B", "C", "D", "E", "F"}

validate_color(color) ==
  /\ color # ""
  /\ Len(color) = 7
  /\ Ch(color, 1) = "#"
  /\ \A i \in 2..7 : Ch(color, i) \in HexDigits

\* clamp_coord without the lower limit: min(val, max_val)
clamp_coord_no_floor(val, max_val) == IF val < max_val THEN val ELSE max_val

clamp_coord(val, max_val) ==
  LET lo == IF val < max_val THEN val ELSE max_val
  IN  IF lo > 0 THEN lo ELSE 0

\* min(max(int_value, lo), hi) as written for SIZE, RADIUS, WIDTH and HEIGHT
ClampInt(val, lo, hi) ==
  LET a == IF val > lo THEN val ELSE lo
  IN  IF a < hi THEN a ELSE hi

(***************************************************************************)
(* Command values.  None is the absent move_to.                            *)
(***************************************************************************)
None == <<>>

TextCommand(text, line_num) ==
  [type |-> "text", text |-> text, x |-> 100, y |-> 100, size |-> 32,
   color |-> "#FFFFFF", move_to |-> None, move_duration |-> Num(0),
   obj_id |-> "text_" \o ToString(line_num)]

ShapeCommand(shape_type, line_num) ==
  [type |-> "shape", shape_type |-> shape_type,
   obj_id |-> "shape_" \o ToString(line_num), x |-> 50, y |-> 50,
   color |-> "#FFFFFF", radius |-> 20, width |-> 50, height |-> 50,
   move_to |-> None, move_duration |-> Num(0), ease |-> "linear"]

MoveCommand(obj_id, to_x, to_y, duration, ease) ==
  [type |-> "move", obj_id |-> obj_id, to_x |-> to_x, to_y |-> to_y,
   duration |-> duration, ease |-> ease]

\* The outcome of a parsing step: the exception raised (or "none"), the
\* command so far and the next token index (1-based here, 0-based in the code).
Outcome(exc, reason, cmd, i) == [exc |-> exc, reason |-> reason, cmd |-> cmd, i |-> i]

\* "x,y" -> the clamped pair; a list that has not exactly two parts leaves
\* the current pair; a part that is no integer raises ValueError.
ParseCoords(token, cur) ==
  LET coords == Split(token, ",")
      a == ParseInt(coords[1])
      b == ParseInt(coords[2])
  IN  IF Len(coords) # 2 THEN [ok |-> TRUE, v |-> cur]
      ELSE IF ~a.ok \/ ~b.ok THEN [ok |-> FALSE, v |-> cur]
      ELSE [ok |-> TRUE,
            v |-> <<clamp_coord(a.v, MAX_WIDTH), clamp_coord(b.v, MAX_HEIGHT)>>]

\* max(min(dur_val, MAX_DURATION), lo): the value first in max
ClampDurationValueFirst(dur_val, lo) ==
  PyMax(PyMin(dur_val, Num(MAX_DURATION * FScale)), lo)

\* max(lo, min(dur_val, MAX_DURATION)) of the DUR keyword
ClampDuration(dur_val, lo) == PyMax(lo, PyMin(dur_val, Num(MAX_DURATION * FScale)))

(***************************************************************************)
(* parse_text_command: one iteration of the keyword scan at index i.       *)
(***************************************************************************)
\* The iteration with an else branch that leaves the index where it is
TextStepKeepsIndex(tokens, i, cmd) ==
  LET n == Len(tokens)
      keyword == Upper(tokens[i])
      Next1 == tokens[i + 1]
      Failed(kind) == Outcome("ValueError", kind, cmd, i)
  IN  CASE keyword = "AT" /\ i + 1 <= n ->
             LET c == ParseCoords(Next1, <<cmd.x, cmd.y>>)
             IN  IF c.ok
                 THEN Outcome("none", "", [cmd EXCEPT !.x = c.v[1], !.y = c.v[2]], i + 2)
                 ELSE Failed("int")
        [] keyword = "SIZE" /\ i + 1 <= n ->
             LET v == ParseInt(Next1)
             IN  IF v.ok
                 THEN Outcome("none", "", [cmd EXCEPT !.size = ClampInt(v.v, 8, 200)], i + 2)
                 ELSE Failed("int")
        [] keyword = "COLOR" /\ i + 1 <= n ->
             IF validate_color(Next1)
             THEN Outcome("none", "", [cmd EXCEPT !.color = Next1], i + 2)
             ELSE Outcome("DSLValidationError", "InvalidColor", cmd, i)
        [] keyword = "ID" /\ i + 1 <= n ->
             Outcome("none", "", [cmd EXCEPT !.obj_id = Next1], i + 2)
        [] keyword = "MOVE" /\ i + 2 <= n /\ Upper(Next1) = "TO" ->
             LET c == ParseCoords(tokens[i + 2], cmd.move_to)
             IN  IF c.ok
                 THEN Outcome("none", "", [cmd EXCEPT !.move_to = c.v], i + 3)
                 ELSE Failed("int")
        [] keyword = "DUR" /\ i + 1 <= n ->
             LET v == ParseFloat(Next1)
             IN  IF v.ok
                 THEN Outcome("none", "",
                              [cmd EXCEPT !.move_duration = ClampDuration(v.v, Num(0))],
                              i + 2)
                 ELSE Failed("float")
        [] OTHER -> Outcome("none", "", cmd, i)

TextStep(tokens, i, cmd) ==
  LET n == Len(tokens)
      keyword == Upper(tokens[i])
      Next1 == tokens[i + 1]
      Failed(kind) == Outcome("ValueError", kind, cmd, i)
  IN  CASE keyword = "AT" /\ i + 1 <= n ->
             LET c == ParseCoords(Next1, <<cmd.x, cmd.y>>)
             IN  IF c.ok
                 THEN Outcome("none", "", [cmd EXCEPT !.x = c.v[1], !.y = c.v[2]], i + 2)
                 ELSE Failed("int")
        [] keyword = "SIZE" /\ i + 1 <= n ->
             LET v == ParseInt(Next1)
             IN  IF v.ok
                 THEN Outcome("none", "", [cmd EXCEPT !.size = ClampInt(v.v, 8, 200)], i + 2)
                 ELSE Failed("int")
        [] keyword = "COLOR" /\ i + 1 <= n ->
             IF validate_color(Next1)
             THEN Outcome("none", "", [cmd EXCEPT !.color = Next1], i + 2)
             ELSE Outcome("DSLValidationError", "InvalidColor", cmd, i)
        [] keyword = "ID" /\ i + 1 <= n ->
             Outcome("none", "", [cmd EXCEPT !.obj_id = Next1], i + 2)
        [] keyword = "MOVE" /\ i + 2 <= n /\ Upper(Next1) = "TO" ->
             LET c == ParseCoords(tokens[i + 2], cmd.move_to)
             IN  IF c.ok
                 THEN Outcome("none", "", [cmd EXCEPT !.move_to = c.v], i + 3)
                 ELSE Failed("int")
        [] keyword = "DUR" /\ i + 1 <= n ->
             LET v == ParseFloat(Next1)
             IN  IF v.ok
                 THEN Outcome("none", "",
                              [cmd EXCEPT !.move_duration = ClampDuration(v.v, Num(0))],
                              i + 2)
                 ELSE Failed("float")
        [] OTHER -> Outcome("none", "", cmd, i + 1)

\* while i < len(tokens): an exception ends the scan
RECURSIVE TextScan(_, _, _)
RECURSIVE TextScanAfter(_, _)
TextScanAfter(tokens, r) ==
  IF r.exc # "none" THEN r ELSE TextScan(tokens, r.i, r.cmd)

TextScan(tokens, i, cmd) ==
  IF i > Len(tokens) THEN Outcome("none", "", cmd, i)
  ELSE TextScanAfter(tokens, TextStep(tokens, i, cmd))

parse_text_command(tokens, line_num) ==
  IF tokens = <<>>
  THEN Outcome("DSLParseError", "TextWithoutContent", None, 1)
  ELSE TextScan(tokens, 2, TextCommand(tokens[1], line_num))

(***************************************************************************)
(* parse_shape_command                                                     *)
(***************************************************************************)
ShapeStep(tokens, i, cmd) ==
  LET n == Len(tokens)
      keyword == Upper(tokens[i])
      Next1 == tokens[i + 1]
      Failed(kind) == Outcome("ValueError", kind, cmd, i)
      IntField(lo, hi) == LET v == ParseInt(Next1)
                          IN  [ok |-> v.ok, v |-> ClampInt(v.v, lo, hi)]
  IN  CASE keyword = "ID" /\ i + 1 <= n ->
             Outcome("none", "", [cmd EXCEPT !.obj_id = Next1], i + 2)
        [] keyword = "AT" /\ i + 1 <= n ->
             LET c == ParseCoords(Next1, <<cmd.x, cmd.y>>)
             IN  IF c.ok
                 THEN Outcome("none", "", [cmd EXCEPT !.x = c.v[1], !.y = c.v[2]], i + 2)
                 ELSE Failed("int")
        [] keyword = "RADIUS" /\ i + 1 <= n ->
             LET v == IntField(1, 500)
             IN  IF v.ok THEN Outcome("none", "", [cmd EXCEPT !.radius = v.v], i + 2)
                 ELSE Failed("int")
        [] keyword = "WIDTH" /\ i + 1 <= n ->
             LET v == IntField(1, MAX_WIDTH)
             IN  IF v.ok THEN Outcome("none", "", [cmd EXCEPT !.width = v.v], i + 2)
                 ELSE Failed("int")
        [] keyword = "HEIGHT" /\ i + 1 <= n ->
             LET v == IntField(1, MAX_HEIGHT)
             IN  IF v.ok THEN Outcome("none", "", [cmd EXCEPT !.height = v.v], i + 2)
                 ELSE Failed("int")
        [] keyword = "COLOR" /\ i + 1 <= n ->
             IF validate_color(Next1)
             THEN Outcome("none", "", [cmd EXCEPT !.color = Next1], i + 2)
             ELSE Outcome("DSLValidationError", "InvalidColor", cmd, i)
        [] keyword = "MOVE" /\ i + 2 <= n /\ Upper(Next1) = "TO" ->
             LET c == ParseCoords(tokens[i + 2], cmd.move_to)
             IN  IF c.ok
                 THEN Outcome("none", "", [cmd EXCEPT !.move_to = c.v], i + 3)
                 ELSE Failed("int")
        [] keyword = "DUR" /\ i + 1 <= n ->
             LET v == ParseFloat(Next1)
             IN  IF v.ok
                 THEN Outcome("none", "",
                              [cmd EXCEPT !.move_duration = ClampDuration(v.v, Num(0))],
                              i + 2)
                 ELSE Failed("float")
        [] keyword = "EASE" /\ i + 1 <= n ->
             LET ease == Lower(Next1)
             IN  Outcome("none", "",
                         IF ease \in ALLOWED_EASE_TYPES
                         THEN [cmd EXCEPT !.ease = ease] ELSE cmd,
                         i + 2)
        [] OTHER -> Outcome("none", "", cmd, i + 1)

\* while i < len(tokens): an exception ends the scan
RECURSIVE ShapeScan(_, _, _)
RECURSIVE ShapeScanAfter(_, _)
ShapeScanAfter(tokens, r) ==
  IF r.exc # "none" THEN r ELSE ShapeScan(tokens, r.i, r.cmd)

ShapeScan(tokens, i, cmd) ==
  IF i > Len(tokens) THEN Outcome("none", "", cmd, i)
  ELSE ShapeScanAfter(tokens, ShapeStep(tokens, i, cmd))

parse_shape_command(tokens, line_num) ==
  IF tokens = <<>>
  THEN Outcome("DSLParseError", "ShapeWithoutType", None, 1)
  ELSE IF Upper(tokens[1]) \notin ALLOWED_SHAPE_TYPES
  THEN Outcome("DSLValidationError", "UnknownShapeType", None, 1)
  ELSE ShapeScan(tokens, 2, ShapeCommand(Upper(tokens[1]), line_num))

(***************************************************************************)
(* parse_move_command                                                      *)
(***************************************************************************)
MoveStep(tokens, i, cmd) ==
  LET n == Len(tokens)
      keyword == Upper(tokens[i])
      Next1 == tokens[i + 1]
  IN  CASE keyword = "TO" /\ i + 1 <= n ->
             LET c == ParseCoords(Next1, <<cmd.to_x, cmd.to_y>>)
             IN  IF c.ok
                 THEN Outcome("none", "",
                              [cmd EXCEPT !.to_x = c.v[1], !.to_y = c.v[2]], i + 2)
                 ELSE Outcome("ValueError", "int", cmd, i)
        [] keyword = "DUR" /\ i + 1 <= n ->
             LET v == ParseFloat(Next1)
             IN  IF v.ok
                 THEN Outcome("none", "",
                              [cmd EXCEPT !.duration =
                                 ClampDuration(v.v, Num(FScale \div 10))],
                              i + 2)
                 ELSE Outcome("ValueError", "float", cmd, i)
        [] keyword = "EASE" /\ i + 1 <= n ->
             LET ease == Lower(Next1)
             IN  Outcome("none", "",
                         [cmd EXCEPT !.ease = IF ease \in ALLOWED_EASE_TYPES
                                              THEN ease ELSE "linear"],
                         i + 2)
        [] OTHER -> Outcome("none", "", cmd, i + 1)

\* while i < len(tokens): an exception ends the scan
RECURSIVE MoveScan(_, _, _)
RECURSIVE MoveScanAfter(_, _)
MoveScanAfter(tokens, r) ==
  IF r.exc # "none" THEN r ELSE MoveScan(tokens, r.i, r.cmd)

MoveScan(tokens, i, cmd) ==
  IF i > Len(tokens) THEN Outcome("none", "", cmd, i)
  ELSE MoveScanAfter(tokens, MoveStep(tokens, i, cmd))

parse_move_command(tokens, line_num) ==
  IF Len(tokens) < 4
  THEN Outcome("DSLParseError", "MoveTooFewTokens", None, 1)
  ELSE MoveScan(tokens, 2, MoveCommand(tokens[1], 0, 0, Num(FScale), "linear"))

(***************************************************************************)
(* parse_dsl: the body of the loop over the lines, for line number         *)
(* line_num, and the check after the loop.                                 *)
(***************************************************************************)
AnimationSpec ==
  [background |-> "#202020", fps |-> 24, duration |-> Num(3 * FScale),
   objects |-> <<>>, moves |-> <<>>]

LineResult(exc, reason, count, sp) ==
  [exc |-> exc, reason |-> reason, object_count |-> count, spec |-> sp]

\* except (IndexError, ValueError): raise DSLParseError
Caught(r) == IF r.exc = "ValueError" THEN [r EXCEPT !.exc = "DSLParseError"] ELSE r

\* TEXT and SHAPE with the counter compared before it is incremented
ParseObjectCheckBeforeIncrement(r, count, sp) ==
  IF count > MAX_OBJECTS
  THEN LineResult("DSLValidationError", "TooManyObjects", count + 1, sp)
  ELSE IF r.exc # "none" THEN LineResult(r.exc, r.reason, count + 1, sp)
  ELSE LineResult("none", "", count + 1, [sp EXCEPT !.objects = Append(@, r.cmd)])

\* TEXT and SHAPE: the counter first, then the command parser, then the append
ParseObject(r, count, sp) ==
  IF count + 1 > MAX_OBJECTS
  THEN LineResult("DSLValidationError", "TooManyObjects", count + 1, sp)
  ELSE IF r.exc # "none" THEN LineResult(r.exc, r.reason, count + 1, sp)
  ELSE LineResult("none", "", count + 1, [sp EXCEPT !.objects = Append(@, r.cmd)])

\* MOVE: the command parser, then the append
ParseMove(r, count, sp) ==
  IF r.exc # "none" THEN LineResult(r.exc, r.reason, count, sp)
  ELSE LineResult("none", "", count, [sp EXCEPT !.moves = Append(@, r.cmd)])

\* BACKGROUND without the call of validate_color
ParseBackgroundUnchecked(tokens, count, sp) ==
  LET color == IF Len(tokens) > 1 THEN tokens[2] ELSE "#202020"
  IN  LineResult("none", "", count, [sp EXCEPT !.background = color])

\* BACKGROUND
ParseBackground(tokens, count, sp) ==
  LET color == IF Len(tokens) > 1 THEN tokens[2] ELSE "#202020"
  IN  IF ~validate_color(color)
      THEN LineResult("DSLValidationError", "InvalidColor", count, sp)
      ELSE LineResult("none", "", count, [sp EXCEPT !.background = color])

\* FPS without the upper bound of the range check
ParseFpsNoUpperBound(tokens, count, sp) ==
  LET fps == IF Len(tokens) > 1 THEN ParseInt(tokens[2])
             ELSE [ok |-> TRUE, v |-> 24]
  IN  IF ~fps.ok THEN LineResult("ValueError", "int", count, sp)
      ELSE IF fps.v < 1
      THEN LineResult("DSLValidationError", "FpsOutOfRange", count, sp)
      ELSE LineResult("none", "", count, [sp EXCEPT !.fps = fps.v])

\* FPS
ParseFps(tokens, count, sp) ==
  LET fps == IF Len(tokens) > 1 THEN ParseInt(tokens[2])
             ELSE [ok |-> TRUE, v |-> 24]
  IN  IF ~fps.ok THEN LineResult("ValueError", "int", count, sp)
      ELSE IF fps.v < 1 \/ fps.v > MAX_FPS
      THEN LineResult("DSLValidationError", "FpsOutOfRange", count, sp)
      ELSE LineResult("none", "", count, [sp EXCEPT !.fps = fps.v])

\* DURATION
ParseDuration(tokens, count, sp) ==
  LET duration == IF Len(tokens) > 1 THEN ParseFloat(tokens[2])
                  ELSE [ok |-> TRUE, v |-> Num(3 * FScale)]
  IN  IF ~duration.ok THEN LineResult("ValueError", "float", count, sp)
      ELSE IF FLe(duration.v, Num(0))
              \/ FGt(duration.v, Num(MAX_DURATION * FScale))
      THEN LineResult("DSLValidationError", "DurationOutOfRange", count, sp)
      ELSE LineResult("none", "", count, [sp EXCEPT !.duration = duration.v])

ParseCommand(command, tokens, line_num, count, sp) ==
  CASE command = "BACKGROUND" -> ParseBackground(tokens, count, sp)
    [] command = "FPS" -> ParseFps(tokens, count, sp)
    [] command = "DURATION" -> ParseDuration(tokens, count, sp)
    [] command = "TEXT" ->
         ParseObject(parse_text_command(Tail(tokens), line_num), count, sp)
    [] command = "SHAPE" ->
         ParseObject(parse_shape_command(Tail(tokens), line_num), count, sp)
    [] command = "MOVE" ->
         ParseMove(parse_move_command(Tail(tokens), line_num), count, sp)
    [] OTHER -> LineResult("none", "", count, sp)

ParseDslLine(raw, line_num, count, sp) ==
  LET line == Strip(raw)
      tokens == tokenize_line(line)
      command == Upper(tokens[1])
  IN  IF line = "" \/ Ch(line, 1) = "#" THEN LineResult("none", "", count, sp)
      ELSE IF tokens = <<>> THEN LineResult("none", "", count, sp)
      ELSE IF command \notin ALLOWED_COMMANDS
      THEN LineResult("DSLParseError", "UnknownCommand", count, sp)
      ELSE Caught(ParseCommand(command, tokens, line_num, count, sp))

\* int(spec.fps * spec.duration); int(nan) raises ValueError
TotalFrames(sp) ==
  IF sp.duration.k = "nan" THEN [ok |-> FALSE, v |-> 0]
  ELSE [ok |-> TRUE, v |-> TruncDiv(sp.fps * sp.duration.m, FScale)]

\* the check after the loop: no line number is attached to what it raises
FinalCheck(sp) ==
  LET total_frames == TotalFrames(sp)
  IN  IF ~total_frames.ok THEN [exc |-> "ValueError", reason |-> "int(nan)"]
      ELSE IF total_frames.v > MAX_FRAMES
      THEN [exc |-> "DSLValidationError", reason |-> "TooManyFrames"]
      ELSE [exc |-> "none", reason |-> ""]

\* what parse_dsl gives its caller: the exception with the line number its
\* message carries (0: none), or the spec
ParseOutcome(exc, reason, line, sp) ==
  [exc |-> exc, reason |-> reason, line |-> line, spec |-> sp]

RECURSIVE ParseLines(_, _, _, _)

\* the loop of parse_dsl after line i has been handled with result r
ParseLinesAfter(lines, i, r) ==
  IF r.exc # "none" THEN ParseOutcome(r.exc, r.reason, i, r.spec)
  ELSE ParseLines(lines, i + 1, r.object_count, r.spec)

\* for line_num, line in enumerate(lines, 1), from line i on, and the check
\* after the loop
ParseLines(lines, i, count, sp) ==
  IF i > Len(lines)
  THEN ParseOutcome(FinalCheck(sp).exc, FinalCheck(sp).reason, 0, sp)
  ELSE ParseLinesAfter(lines, i, ParseDslLine(lines[i], i, count, sp))

\* parse_dsl(dsl_script): lines = dsl_script.strip().split('\n')
parse_dsl(dsl_script) ==
  ParseLines(SplitLines(Strip(dsl_script)), 1, 0, AnimationSpec)

(***************************************************************************)
(* AnimationRenderer                                                       *)
(***************************************************************************)
EmptyDict == [id \in {} |-> None]

Put(dict, key, value) ==
  [id \in DOMAIN dict \cup {key} |-> IF id = key THEN value ELSE dict[id]]

\* int(duration * fps)
EndFrame(duration, fps) == TruncDiv(duration.m * fps, FScale)

Descriptor(from, to, end_frame, ease) ==
  [from |-> from, to |-> to, start_frame |-> 0, end_frame |-> end_frame, ease |-> ease]

\* _prepare_movements, first loop: one object
PrepareObject(obj, fps, reg) ==
  LET positions == Put(reg.object_positions, obj.obj_id, <<obj.x, obj.y>>)
      ease == IF "ease" \in DOMAIN obj THEN obj.ease ELSE "linear"
  IN  IF obj.move_to # None /\ FGt(obj.move_duration, Num(0))
      THEN [object_positions |-> positions,
            object_moves |->
              Put(reg.object_moves, obj.obj_id,
                  Descriptor(<<obj.x, obj.y>>, obj.move_to,
                             EndFrame(obj.move_duration, fps), ease))]
      ELSE [object_positions |-> positions, object_moves |-> reg.object_moves]

\* One standalone move that starts where the previous movement of the id ends
PrepareMoveChained(move, fps, reg) ==
  IF move.obj_id \in DOMAIN reg.object_positions
  THEN [reg EXCEPT !.object_moves =
          Put(@, move.obj_id,
              Descriptor(IF move.obj_id \in DOMAIN reg.object_moves
                         THEN reg.object_moves[move.obj_id].to
                         ELSE reg.object_positions[move.obj_id],
                         <<move.to_x, move.to_y>>,
                         EndFrame(move.duration, fps), move.ease))]
  ELSE reg

\* One standalone move without the test on object_positions: an unknown id
\* starts at (0, 0)
PrepareMoveUnguarded(move, fps, reg) ==
  [reg EXCEPT !.object_moves =
     Put(@, move.obj_id,
         Descriptor(IF move.obj_id \in DOMAIN reg.object_positions
                    THEN reg.object_positions[move.obj_id] ELSE <<0, 0>>,
                    <<move.to_x, move.to_y>>,
                    EndFrame(move.duration, fps), move.ease))]

\* _prepare_movements, second loop: one standalone move
PrepareMove(move, fps, reg) ==
  IF move.obj_id \in DOMAIN reg.object_positions
  THEN [reg EXCEPT !.object_moves =
          Put(@, move.obj_id,
              Descriptor(reg.object_positions[move.obj_id], <<move.to_x, move.to_y>>,
                         EndFrame(move.duration, fps), move.ease))]
  ELSE reg

RECURSIVE PrepareObjects(_, _, _, _)
PrepareObjects(objects, i, fps, reg) ==
  IF i > Len(objects) THEN reg
  ELSE PrepareObjects(objects, i + 1, fps, PrepareObject(objects[i], fps, reg))

RECURSIVE PrepareMoves(_, _, _, _)
PrepareMoves(moves, i, fps, reg) ==
  IF i > Len(moves) THEN reg
  ELSE PrepareMoves(moves, i + 1, fps, PrepareMove(moves[i], fps, reg))

\* The two loops in the other order
prepare_movements_moves_first(sp) ==
  PrepareObjects(sp.objects, 1, sp.fps,
                 PrepareMoves(sp.moves, 1, sp.fps,
                              [object_positions |-> EmptyDict, object_moves |-> EmptyDict]))

prepare_movements(sp) ==
  PrepareMoves(sp.moves, 1, sp.fps,
               PrepareObjects(sp.objects, 1, sp.fps,
                              [object_positions |-> EmptyDict, object_moves |-> EmptyDict]))

\* The easing functions with ease-out written without its "1 -"
EaseOutInverted(ease, num, den) ==
  IF ease = "ease-in" THEN [num |-> num * num, den |-> den * den]
  ELSE IF ease = "ease-out"
  THEN [num |-> (den - num) * (den - num), den |-> den * den]
  ELSE [num |-> num, den |-> den]

\* The easing functions on a progress num/den, as a fraction
Ease(ease, num, den) ==
  IF ease = "ease-in" THEN [num |-> num * num, den |-> den * den]
  ELSE IF ease = "ease-out"
  THEN [num |-> den * den - (den - num) * (den - num), den |-> den * den]
  ELSE [num |-> num, den |-> den]

\* The interpolation started at the target: int(b + (b - a) * t)
LerpFromTarget(a, b, t) == TruncDiv(b * t.den + (b - a) * t.num, t.den)

\* int(a + (b - a) * t), in exact arithmetic. The code computes it in
\* binary floating point, which can fall just below a whole number the exact
\* value reaches; on the descriptors built from RichLines the two agree.
Lerp(a, b, t) == TruncDiv(a * t.den + (b - a) * t.num, t.den)

get_position(positions, moves, obj_id, frame) ==
  IF obj_id \notin DOMAIN moves
  THEN IF obj_id \in DOMAIN positions THEN positions[obj_id] ELSE <<0, 0>>
  ELSE LET move == moves[obj_id]
           start_frame == move.start_frame
           end_frame == move.end_frame
           span == IF end_frame - start_frame > 1 THEN end_frame - start_frame ELSE 1
           t == Ease(move.ease, frame - start_frame, span)
       IN  IF frame < start_frame THEN move.from
           ELSE IF frame >= end_frame THEN move.to
           ELSE <<Lerp(move.from[1], move.to[1], t), Lerp(move.from[2], move.to[2], t)>>

\* What render_frame paints, in order: the background, the objects, the watermark
DrawObject(obj, index, pos) ==
  [op |-> IF obj.type = "text" THEN "text"
          ELSE IF obj.shape_type = "CIRCLE" THEN "circle" ELSE "rect",
   index |-> index, at |-> pos]

\* render_frame with the objects walked from the last one to the first
render_frame_reversed(sp, positions, moves, frame_num) ==
  <<[op |-> "background", index |-> 0, at |-> <<0, 0>>]>>
  \o [i \in 1..Len(sp.objects) |->
        DrawObject(sp.objects[Len(sp.objects) + 1 - i], Len(sp.objects) + 1 - i,
                   get_position(positions, moves,
                                sp.objects[Len(sp.objects) + 1 - i].obj_id, frame_num))]
  \o <<[op |-> "watermark", index |-> 0, at |-> <<0, 0>>]>>

render_frame(sp, positions, moves, frame_num) ==
  <<[op |-> "background", index |-> 0, at |-> <<0, 0>>]>>
  \o [i \in 1..Len(sp.objects) |->
        DrawObject(sp.objects[i], i,
                   get_position(positions, moves, sp.objects[i].obj_id, frame_num))]
  \o <<[op |-> "watermark", index |-> 0, at |-> <<0, 0>>]>>

\* frames[i + 1] is the frame of index i
render_all_frames(sp, positions, moves, total) ==
  [i \in 1..total |-> render_frame(sp, positions, moves, i - 1)]

(***************************************************************************)
(* The inputs of the model.                                                *)
(***************************************************************************)
\* the longest document of Spec, in lines
MaxLines == 3

\* the longest document of SpecCap, in lines
MaxCapLines == 53

\* The lines a document of Spec is made of: the elements of
\* dsl_script.strip().split('\n')
RichLines ==
  {"",
   "# a comment",
   "BACKGROUND #1a1a2e",
   "FPS 2",
   "FPS 25",
   "FPS two",
   "DURATION 1",
   "DURATION 0.5",
   "DURATION 7",
   "DURATION nan",
   "JUMP ball",
   "SHAPE CIRCLE ID ball AT 50,180 RADIUS 30 COLOR #FF4444 MOVE TO 550,180 DUR 3 EASE linear",
   "SHAPE RECT ID ball AT 10,20 MOVE TO 30,45 DUR 1 EASE ease-in",
   "SHAPE CIRCLE ID dot AT 5,5",
   "SHAPE RECT ID dot AT 20,20 WIDTH 8 HEIGHT 6",
   "SHAPE TRIANGLE ID t AT 1,1 COLOR #FFFFFF",
   "TEXT \"Hello\" AT 280,50 SIZE 36 COLOR #FFFFFF",
   "TEXT \"Hi\" ID ball AT 7,9 MOVE TO 90,70 DUR 0.01",
   "TEXT",
   "MOVE ball TO 110,100 DUR 2 EASE ease-out",
   "MOVE ball TO 0,0 DUR 0.3",
   "MOVE ghost TO 1,1 DUR 1",
   "MOVE ball TO"}

\* The lines a document of SpecCap is made of
CapLines == {"SHAPE CIRCLE ID b", "FPS 12", "TEXT", "# filler"}

(***************************************************************************)
(* The state of one request.                                               *)
(***************************************************************************)
VARIABLES
  op,               \* "nl": generate_video_sync, "dsl": generate_video_from_dsl
  pc,               \* where the request is
  over_budget,      \* time.time() - start_time > RENDER_TIMEOUT
  line_num,         \* parse_dsl: the number of the last line read
  object_count,     \* parse_dsl: object_count
  spec,             \* parse_dsl: spec
  exc,              \* what parse_dsl raised
  object_positions, \* AnimationRenderer.object_positions
  object_moves,     \* AnimationRenderer.object_moves
  total_frames,     \* AnimationRenderer.total_frames
  frames,           \* AnimationRenderer.frames
  video_bytes,      \* whether render_to_bytes returned the encoded video
  save_calls,       \* the calls of save_video_metadata
  save_failed,      \* whether save_video_metadata raised
  raised,           \* the exception that left the pipeline function
  response,         \* the HTTP response of the handler
  call,             \* a direct call of a function of the parser: its arguments
  result            \* what the call returned

vars ==
  <<op, pc, over_budget, line_num, object_count, spec, exc, object_positions,
    object_moves, total_frames, frames, video_bytes, save_calls, save_failed,
    raised, response, call, result>>

callVars == <<call, result>>

requestVars ==
  <<op, pc, over_budget, line_num, object_count, spec, exc, object_positions,
    object_moves, total_frames, frames, video_bytes, save_calls, save_failed,
    raised, response>>

parserVars == <<line_num, object_count, spec, exc>>

saveVars == <<save_calls, save_failed>>

rendererVars == <<object_positions, object_moves, total_frames, frames, video_bytes>>

NoException == [type |-> "none", message |-> ""]

NoCall == [fn |-> "none"]

NoResult == [returned |-> FALSE]

NoResponse == [status |-> 0, ok |-> FALSE, video |-> FALSE]

Init ==
  /\ op = "none"
  /\ pc = "idle"
  /\ over_budget = FALSE
  /\ line_num = 0
  /\ object_count = 0
  /\ spec = AnimationSpec
  /\ exc = [type |-> "none", reason |-> "", line |-> 0]
  /\ object_positions = EmptyDict
  /\ object_moves = EmptyDict
  /\ total_frames = 0
  /\ frames = <<>>
  /\ video_bytes = FALSE
  /\ save_calls = 0
  /\ save_failed = FALSE
  /\ raised = NoException
  /\ response = NoResponse
  /\ call = NoCall
  /\ result = NoResult

\* The clock moves on while a stage runs: at its end the budget may be spent.
ClockAdvances == over_budget' \in {over_budget, TRUE}

\* raise PipelineError(message): the handler is next
Raise(type, message) ==
  /\ raised' = [type |-> type, message |-> message]
  /\ pc' = "respond"

(***************************************************************************)
(* main.py: POST /generate and POST /generate-dsl call the pipeline.       *)
(***************************************************************************)
generate ==
  /\ pc = "idle"
  /\ op' = "nl"
  /\ pc' = "translate"
  /\ UNCHANGED <<over_budget, parserVars, rendererVars, saveVars, raised, response>>
  /\ UNCHANGED callVars

generate_from_dsl ==
  /\ pc = "idle"
  /\ op' = "dsl"
  /\ pc' = "parse"
  /\ UNCHANGED <<over_budget, parserVars, rendererVars, saveVars, raised, response>>
  /\ UNCHANGED callVars

(***************************************************************************)
(* generate_video_sync: translate_prompt_to_dsl and the check after it.    *)
(***************************************************************************)
Translate ==
  /\ pc = "translate"
  /\ ClockAdvances
  /\ \/ pc' = "check_script" /\ UNCHANGED raised
     \/ Raise("PipelineError", "Failed to generate animation script")
  /\ UNCHANGED <<op, parserVars, rendererVars, saveVars, response>>
  /\ UNCHANGED callVars

\* if time.time() - start_time > RENDER_TIMEOUT: raise PipelineError
TimeoutCheck(at, message, next) ==
  /\ pc = at
  /\ IF over_budget
     THEN Raise("PipelineError", message)
     ELSE pc' = next /\ UNCHANGED raised
  /\ UNCHANGED <<op, over_budget, parserVars, rendererVars, saveVars, response>>
  /\ UNCHANGED callVars

CheckScript == TimeoutCheck("check_script", "Timeout during script generation", "parse")

CheckParse == TimeoutCheck("check_parse", "Timeout during parsing", "render_init")

CheckRender == TimeoutCheck("check_render", "Timeout during rendering", "save")

(***************************************************************************)
(* parse_dsl, one line at a time, and how the pipeline wraps what it       *)
(* raises.                                                                 *)
(***************************************************************************)
ParseFailure(o, type) ==
  IF type = "DSLParseError"
  THEN [type |-> "PipelineError",
        message |-> IF o = "nl" THEN "Invalid animation script" ELSE "Invalid DSL script"]
  ELSE IF type = "DSLValidationError"
  THEN [type |-> "PipelineError",
        message |-> IF o = "nl" THEN "Animation validation failed"
                    ELSE "DSL validation failed"]
  ELSE [type |-> type, message |-> "uncaught"]

ParseLine(Lines, maxLines) ==
  /\ pc = "parse"
  /\ line_num < maxLines
  /\ \E raw \in Lines :
       \E r \in {ParseDslLine(raw, line_num + 1, object_count, spec)} :
          /\ line_num' = line_num + 1
          /\ object_count' = r.object_count
          /\ spec' = r.spec
          /\ IF r.exc = "none"
             THEN UNCHANGED <<exc, raised, pc, over_budget>>
             ELSE /\ exc' = [type |-> r.exc, reason |-> r.reason, line |-> line_num + 1]
                  /\ raised' = ParseFailure(op, r.exc)
                  /\ pc' = "respond"
                  /\ ClockAdvances
  /\ UNCHANGED <<op, rendererVars, saveVars, response>>
  /\ UNCHANGED callVars

\* The end of the loop. dsl_script.strip().split('\n') holds one line at
\* least: the empty document is the one blank line.
EndOfDocument ==
  /\ pc = "parse"
  /\ line_num >= 1
  /\ ClockAdvances
  /\ LET r == FinalCheck(spec)
     IN  IF r.exc = "none"
         THEN /\ pc' = IF op = "nl" THEN "check_parse" ELSE "render_init"
              /\ UNCHANGED <<exc, raised>>
         ELSE /\ exc' = [type |-> r.exc, reason |-> r.reason, line |-> 0]
              /\ raised' = ParseFailure(op, r.exc)
              /\ pc' = "respond"
  /\ UNCHANGED <<op, line_num, object_count, spec, rendererVars, saveVars, response>>
  /\ UNCHANGED callVars

(***************************************************************************)
(* The rendering stage: AnimationRenderer(spec), render_all_frames and     *)
(* the encoding of render_to_bytes.                                        *)
(***************************************************************************)
AnimationRenderer ==
  /\ pc = "render_init"
  /\ total_frames' = TotalFrames(spec).v
  /\ LET reg == prepare_movements(spec)
     IN  /\ object_positions' = reg.object_positions
         /\ object_moves' = reg.object_moves
  /\ pc' = "render_frames"
  /\ UNCHANGED <<op, over_budget, parserVars, frames, video_bytes, saveVars,
                 raised, response>>
  /\ UNCHANGED callVars

RenderAllFrames ==
  /\ pc = "render_frames"
  /\ frames' = render_all_frames(spec, object_positions, object_moves, total_frames)
  /\ pc' = "encode"
  /\ UNCHANGED <<op, over_budget, parserVars, object_positions, object_moves,
                 total_frames, video_bytes, saveVars, raised, response>>
  /\ UNCHANGED callVars

\* imageio.mimsave and the reading of the file: the environment decides
Encode ==
  /\ pc = "encode"
  /\ ClockAdvances
  /\ \/ /\ video_bytes' = TRUE
        /\ pc' = IF op = "nl" THEN "check_render" ELSE "save"
        /\ UNCHANGED raised
     \/ /\ Raise("PipelineError", "Rendering failed")
        /\ UNCHANGED video_bytes
  /\ UNCHANGED <<op, parserVars, object_positions, object_moves, total_frames,
                 frames, saveVars, response>>
  /\ UNCHANGED callVars

(***************************************************************************)
(* save_video_metadata inside try/except Exception, then the return.       *)
(***************************************************************************)
\* save_video_metadata outside any try: what it raises leaves the pipeline
SaveMetadataPropagates ==
  /\ pc = "save"
  /\ save_calls' = save_calls + 1
  /\ save_failed' \in BOOLEAN
  /\ raised' = IF save_failed' THEN [type |-> "Exception", message |-> "save failed"]
                ELSE raised
  /\ pc' = "respond"
  /\ UNCHANGED <<op, over_budget, parserVars, rendererVars, response>>
  /\ UNCHANGED callVars

SaveMetadata ==
  /\ pc = "save"
  /\ save_calls' = save_calls + 1
  /\ save_failed' \in BOOLEAN
  /\ pc' = "respond"
  /\ UNCHANGED <<op, over_budget, parserVars, rendererVars, raised, response>>
  /\ UNCHANGED callVars

(***************************************************************************)
(* main.py: the handler answers.                                           *)
(***************************************************************************)
StatusOf(e) ==
  IF e.type = "none" THEN 200
  ELSE IF e.type = "PipelineError" THEN 400
  ELSE 500

Respond ==
  /\ pc = "respond"
  /\ response' = [status |-> StatusOf(raised), ok |-> raised.type = "none",
                  video |-> raised.type = "none" /\ video_bytes]
  /\ pc' = "done"
  /\ UNCHANGED <<op, over_budget, parserVars, rendererVars, saveVars, raised>>
  /\ UNCHANGED callVars

Next ==
  \/ generate
  \/ generate_from_dsl
  \/ Translate
  \/ CheckScript
  \/ ParseLine(RichLines, MaxLines)
  \/ EndOfDocument
  \/ CheckParse
  \/ AnimationRenderer
  \/ RenderAllFrames
  \/ Encode
  \/ CheckRender
  \/ SaveMetadata
  \/ Respond

Spec == Init /\ [][Next]_vars

(***************************************************************************)
(* The parser alone on the documents of up to MaxCapLines lines made of    *)
(* CapLines, through POST /generate-dsl: long enough for the object cap.   *)
(* The rendering stage is not followed.                                    *)
(***************************************************************************)
NextCap ==
  \/ generate_from_dsl
  \/ ParseLine(CapLines, MaxCapLines)
  \/ EndOfDocument
  \/ Respond

SpecCap == Init /\ [][NextCap]_vars

(***************************************************************************)
(* The functions of dsl_parser.py called directly: the arguments are drawn *)
(* from the sets below and each action applies the function once.          *)
(***************************************************************************)
\* the lines before the subject line of a document, at most
MaxBefore == 1

\* the lines after the subject line of a document, at most
MaxAfter == 1

\* the length of a line handed to tokenize_line, at most
MaxTokLen == 5

\* how far from 0 and from the canvas limits the coordinates handed to
\* clamp_coord go
CoordSpan == 6

\* The lines before the subject line of a document
BeforeLines ==
  {"",
   "# a comment",
   "JUMP ball",
   "SHAPE CIRCLE ID a AT 5,5",
   "TEXT \"Hi\"",
   "MOVE a TO 9,9 DUR 1"}

\* The lines after the subject line of a document
AfterLines ==
  {"",
   "FPS 12",
   "DURATION 1",
   "MOVE a TO 9,9 DUR 1"}

\* The subject lines: every command with values inside, at and outside its
\* limits, with and without its optional clauses
SubjectLines ==
  BeforeLines \cup AfterLines \cup
  {"   ",
   "TEXT",
   "SHAPE",
   "MOVE ball TO",
   "FPS two",
   "DURATION long",
   "SHAPE CIRCLE ID a AT 1,x",
   "SHAPE CIRCLE ID a RADIUS big",
   "TEXT \"Hi\" SIZE 1.5",
   "MOVE a TO 1,1 DUR soon",
   "FPS 0",
   "FPS 1",
   "FPS 24",
   "FPS 25",
   "FPS -3",
   "FPS",
   "DURATION 0",
   "DURATION 0.001",
   "DURATION 6",
   "DURATION 6.001",
   "DURATION 7",
   "DURATION -1",
   "DURATION nan",
   "DURATION inf",
   "DURATION",
   "BACKGROUND #1a1a2e",
   "BACKGROUND #1A1A2E",
   "BACKGROUND red",
   "BACKGROUND #12345",
   "BACKGROUND #1234567",
   "BACKGROUND #GGGGGG",
   "BACKGROUND 1a1a2e",
   "BACKGROUND",
   "SHAPE CIRCLE ID c COLOR #00ff00",
   "SHAPE CIRCLE ID c COLOR 00ff00",
   "SHAPE RECT COLOR #00ff0",
   "TEXT \"Hi\" COLOR #ABCDEF",
   "TEXT \"Hi\" COLOR #ABCDEG",
   "TEXT \"Hi\" COLOR blue",
   "SHAPE RECT ID r AT 2000,-5 MOVE TO -1,9999 DUR 1",
   "SHAPE CIRCLE ID c AT 1280,720 MOVE TO 1281,721",
   "TEXT \"Hi\" AT -3,721 MOVE TO 1281,720",
   "TEXT \"Hi\" AT 0,0 MOVE TO 0,0 DUR 0",
   "MOVE r TO 1500,800",
   "MOVE r TO -7,-7 DUR 0.1",
   "MOVE r TO 1280,720 DUR 6",
   "SHAPE CIRCLE ID a EASE ease-in EASE bounce",
   "SHAPE CIRCLE ID a EASE bounce",
   "SHAPE RECT ID a EASE EASE-OUT",
   "SHAPE RECT ID a EASE ease-out EASE linear",
   "MOVE a TO 1,1 EASE ease-in EASE bounce",
   "MOVE a TO 1,1 EASE Ease-In",
   "MOVE a TO 1,1 EASE bounce",
   "TEXT \"Hi\" SIZE 7",
   "TEXT \"Hi\" SIZE 8",
   "TEXT \"Hi\" SIZE 200",
   "TEXT \"Hi\" SIZE 201",
   "TEXT \"Hi\" SIZE -5 MOVE TO 1,1 DUR -1",
   "TEXT \"Hi\" MOVE TO 1,1 DUR 7",
   "TEXT \"Hi\" MOVE TO 1,1 DUR nan",
   "TEXT \"Hi\" MOVE TO 1,1 DUR inf",
   "SHAPE CIRCLE ID c RADIUS 0",
   "SHAPE CIRCLE ID c RADIUS 1",
   "SHAPE CIRCLE ID c RADIUS 500",
   "SHAPE CIRCLE ID c RADIUS 501 MOVE TO 1,1 DUR -inf",
   "SHAPE RECT ID r WIDTH 5000 HEIGHT 5000",
   "SHAPE RECT ID r WIDTH -4 HEIGHT 0",
   "SHAPE RECT ID r WIDTH 1280 HEIGHT 720 MOVE TO 1,1 DUR 6.5",
   "MOVE a TO 1,1 DUR 0",
   "MOVE a TO 1,1 DUR 0.05",
   "MOVE a TO 1,1 DUR 99",
   "MOVE a TO 1,1 DUR nan",
   "MOVE a TO 1,1 DUR -inf",
   "MOVE a TO 1,1 DUR inf"}

\* up to n of the lines before, each with the newline that ends it
RECURSIVE Prefixes(_)
Prefixes(n) ==
  IF n = 0 THEN {""}
  ELSE Prefixes(n - 1) \cup
       {c \o "\n" \o p : c \in BeforeLines, p \in Prefixes(n - 1)}

\* up to n of the lines after, each after the newline that starts it
RECURSIVE Suffixes(_)
Suffixes(n) ==
  IF n = 0 THEN {""}
  ELSE Suffixes(n - 1) \cup
       {p \o "\n" \o c : c \in AfterLines, p \in Suffixes(n - 1)}

\* The texts handed to parse_dsl
Documents ==
  {before \o subject \o after :
     before \in Prefixes(MaxBefore), subject \in SubjectLines,
     after \in Suffixes(MaxAfter)}

\* The characters of the lines handed to tokenize_line
TokenAlphabet == {"a", "b", " ", "\""}

RECURSIVE Strings(_)
Strings(n) ==
  IF n = 0 THEN {""}
  ELSE Strings(n - 1) \cup {c \o t : c \in TokenAlphabet, t \in Strings(n - 1)}

\* The lines handed to tokenize_line
TokenizerLines ==
  Strings(MaxTokLen) \cup {"TEXT \"Hello World\" AT 10,10"}

BaseColors == {"#1a1a2e", "#FFFFFF", "#09afAF"}

ColorChars ==
  {"0", "9", "a", "f", "A", "F", "g", "G", "#", " ", "-", "z"}

\* The strings handed to validate_color: colours, and colours with one
\* character replaced, inserted or removed, or cut short
ColorInputs ==
  BaseColors \cup {"", "red", "#", "1a1a2e", "#1a1a2e#1a1a2e"}
  \cup {SubSeq(c, 1, i - 1) \o ch \o SubSeq(c, i + 1, Len(c)) :
          c \in BaseColors, i \in 1..7, ch \in ColorChars}
  \cup {SubSeq(c, 1, i - 1) \o ch \o SubSeq(c, i, Len(c)) :
          c \in BaseColors, i \in 1..8, ch \in ColorChars}
  \cup {SubSeq(c, 1, i - 1) \o SubSeq(c, i + 1, Len(c)) :
          c \in BaseColors, i \in 1..7}
  \cup {SubSeq(c, 1, i) : c \in BaseColors, i \in 0..7}

\* The arguments handed to clamp_coord
ClampInputs ==
  {[val |-> b + d, max_val |-> m] :
     b \in {0, MAX_HEIGHT, MAX_WIDTH}, d \in (-CoordSpan)..CoordSpan,
     m \in {0, 1, MAX_HEIGHT, MAX_WIDTH}}

CallInputs ==
  {[fn |-> "parse_dsl", dsl_script |-> d] : d \in Documents}
  \cup {[fn |-> "tokenize_line", line |-> l] : l \in TokenizerLines}
  \cup {[fn |-> "validate_color", color |-> c] : c \in ColorInputs}
  \cup {[fn |-> "clamp_coord", val |-> a.val, max_val |-> a.max_val] :
          a \in ClampInputs}

InitCalls ==
  /\ op = "none"
  /\ pc = "idle"
  /\ over_budget = FALSE
  /\ line_num = 0
  /\ object_count = 0
  /\ spec = AnimationSpec
  /\ exc = [type |-> "none", reason |-> "", line |-> 0]
  /\ object_positions = EmptyDict
  /\ object_moves = EmptyDict
  /\ total_frames = 0
  /\ frames = <<>>
  /\ video_bytes = FALSE
  /\ save_calls = 0
  /\ save_failed = FALSE
  /\ raised = NoException
  /\ response = NoResponse
  /\ call \in CallInputs
  /\ result = NoResult

\* the call returns value to its caller
Returns(value) ==
  /\ ~result.returned
  /\ result' = [returned |-> TRUE, value |-> value]
  /\ UNCHANGED <<call, requestVars>>

CallParseDsl ==
  /\ call.fn = "parse_dsl"
  /\ Returns(parse_dsl(call.dsl_script))

CallTokenizeLine ==
  /\ call.fn = "tokenize_line"
  /\ Returns(tokenize_line(call.line))

CallValidateColor ==
  /\ call.fn = "validate_color"
  /\ Returns(validate_color(call.color))

CallClampCoord ==
  /\ call.fn = "clamp_coord"
  /\ Returns(clamp_coord(call.val, call.max_val))

NextCalls ==
  \/ CallParseDsl
  \/ CallTokenizeLine
  \/ CallValidateColor
  \/ CallClampCoord

SpecCalls == InitCalls /\ [][NextCalls]_vars

(***************************************************************************)
(* generate_video_from_dsl called several times in one process on the same *)
(* DSL text and canvas size.  The variables of the request keep what the   *)
(* last run left in them; each run builds its spec and its renderer as the *)
(* code does, and its outcome is put on record when it ends.               *)
(***************************************************************************)
\* the runs of one process
MaxRuns == 2

\* the longest document of a run, in lines
MaxRunLines == 2

\* The lines a document of a run is made of
RunLines ==
  {"FPS 2",
   "DURATION 0.5",
   "DURATION nan",
   "JUMP ball",
   "SHAPE CIRCLE ID ball AT 50,180 RADIUS 30 COLOR #FF4444 MOVE TO 550,180 DUR 3 EASE linear",
   "SHAPE RECT ID ball AT 10,20 MOVE TO 30,45 DUR 1 EASE ease-in",
   "SHAPE CIRCLE ID dot AT 5,5",
   "TEXT \"Hello\" AT 280,50 SIZE 36 COLOR #FFFFFF",
   "MOVE ball TO 110,100 DUR 2 EASE ease-out",
   "MOVE ghost TO 1,1 DUR 1"}

\* the texts of 1..n lines
RECURSIVE RunDocuments(_)
RunDocuments(n) ==
  IF n = 1 THEN RunLines
  ELSE RunDocuments(n - 1) \cup
       {d \o "\n" \o l : d \in RunDocuments(n - 1), l \in RunLines}

\* the requested canvas sizes
RunSizes == {<<640, 360>>, <<100, 2000>>}

RunInputs ==
  {[fn |-> "generate_video_from_dsl", dsl_script |-> d,
    width |-> size[1], height |-> size[2]] :
     d \in RunDocuments(MaxRunLines), size \in RunSizes}

InitRuns ==
  /\ op = "dsl"
  /\ pc = "idle"
  /\ over_budget = FALSE
  /\ line_num = 0
  /\ object_count = 0
  /\ spec = AnimationSpec
  /\ exc = [type |-> "none", reason |-> "", line |-> 0]
  /\ object_positions = EmptyDict
  /\ object_moves = EmptyDict
  /\ total_frames = 0
  /\ frames = <<>>
  /\ video_bytes = FALSE
  /\ save_calls = 0
  /\ save_failed = FALSE
  /\ raised = NoException
  /\ response = NoResponse
  /\ call \in RunInputs
  /\ result = [returned |-> FALSE, runs |-> <<>>]

\* width = min(max(width, 320), MAX_WIDTH) in the pipeline, then
\* min(width, MAX_WIDTH) in AnimationRenderer.__init__; the same for height
Canvas(width, height) ==
  LET w == ClampInt(width, 320, MAX_WIDTH)
      h == ClampInt(height, 180, MAX_HEIGHT)
  IN  <<IF w < MAX_WIDTH THEN w ELSE MAX_WIDTH,
        IF h < MAX_HEIGHT THEN h ELSE MAX_HEIGHT>>

\* parse_dsl with a spec whose lists are the ones the last spec holds (a
\* list default shared by every AnimationSpec)
CompileDslSharedLists ==
  /\ pc = "idle"
  /\ Len(result.runs) < MaxRuns
  /\ \E r \in {ParseLines(SplitLines(Strip(call.dsl_script)), 1, 0,
                          [AnimationSpec EXCEPT !.objects = spec.objects,
                                                !.moves = spec.moves])} :
       /\ spec' = r.spec
       /\ exc' = [type |-> r.exc, reason |-> r.reason, line |-> r.line]
       /\ pc' = IF r.exc = "none" THEN "render_init" ELSE "respond"
  /\ UNCHANGED <<op, over_budget, line_num, object_count, rendererVars, saveVars,
                 raised, response, callVars>>

\* spec = parse_dsl(dsl_script): the parse starts from a new AnimationSpec()
\* whose lists come from default_factory
CompileDsl ==
  /\ pc = "idle"
  /\ Len(result.runs) < MaxRuns
  /\ \E r \in {ParseLines(SplitLines(Strip(call.dsl_script)), 1, 0, AnimationSpec)} :
       /\ spec' = r.spec
       /\ exc' = [type |-> r.exc, reason |-> r.reason, line |-> r.line]
       /\ pc' = IF r.exc = "none" THEN "render_init" ELSE "respond"
  /\ UNCHANGED <<op, over_budget, line_num, object_count, rendererVars, saveVars,
                 raised, response, callVars>>

\* what a run gives: the exception, or the spec, the canvas and the frames
RunOutcome ==
  IF exc.type = "none"
  THEN [exc |-> "none", line |-> 0, spec |-> spec,
        canvas |-> Canvas(call.width, call.height),
        total_frames |-> total_frames, frames |-> frames]
  ELSE [exc |-> exc.type, line |-> exc.line, spec |-> AnimationSpec,
        canvas |-> <<0, 0>>, total_frames |-> 0, frames |-> <<>>]

\* the run ends: after render_all_frames, or with the exception of parse_dsl
EndOfRun ==
  /\ pc \in {"encode", "respond"}
  /\ result' = [result EXCEPT !.runs = Append(@, RunOutcome)]
  /\ pc' = "idle"
  /\ UNCHANGED <<op, over_budget, parserVars, rendererVars, saveVars, raised,
                 response, call>>

NextRuns ==
  \/ CompileDsl
  \/ AnimationRenderer
  \/ RenderAllFrames
  \/ EndOfRun

SpecRuns == InitRuns /\ [][NextRuns]_vars

(***************************************************************************)
(* parse_dsl step by step: one action per line read and one per iteration  *)
(* of the keyword scan of TEXT, SHAPE and MOVE.  result holds the locals:   *)
(* the lines of the document and, of the command parser that is running,   *)
(* its tokens, its index i (1-based here) and the command it builds.       *)
(***************************************************************************)
MaxScanTokens == 3
MaxScanLines == 2

\* the tokens after the first one of a TEXT, SHAPE or MOVE command
ScanTokens == {"AT", "MOVE", "TO", "DUR", "1,1"}

\* " t1 t2 ... tk" for k <= n
RECURSIVE TokenTails(_)
TokenTails(n) ==
  IF n = 0 THEN {""}
  ELSE TokenTails(n - 1) \cup
       {" " \o t \o s : t \in ScanTokens, s \in TokenTails(n - 1)}

\* one command with every run of keywords and values behind it
ScannedLines ==
  {head \o s : head \in {"TEXT t", "SHAPE RECT", "MOVE m"},
               s \in TokenTails(MaxScanTokens)}

\* lines of every kind, with the other keywords in last position
ScanLines ==
  {"",
   "FPS 12",
   "DURATION nan",
   "TEXT \"Hi\" COLOR #FF0000 SIZE",
   "TEXT \"Hi\" ID t1 SIZE big",
   "SHAPE CIRCLE ID ball RADIUS 3 WIDTH 4 HEIGHT 5 COLOR #00ff00 EASE",
   "MOVE ball TO 9,9 DUR 1 EASE ease-in ID",
   "MOVE ball TO"}

RECURSIVE ScanDocumentsOf(_)
ScanDocumentsOf(n) ==
  IF n = 1 THEN ScanLines
  ELSE ScanDocumentsOf(n - 1) \cup
       {d \o "\n" \o l : d \in ScanDocumentsOf(n - 1), l \in ScanLines}

ScanInputs ==
  {[fn |-> "parse_dsl", dsl_script |-> d] :
     d \in ScannedLines \cup ScanDocumentsOf(MaxScanLines)}

\* the locals of parse_dsl when no command parser is running
NoScan(lines) ==
  [returned |-> FALSE, lines |-> lines, command |-> "", tokens |-> <<>>, i |-> 0,
   cmd |-> None]

InitScan ==
  /\ op = "dsl"
  /\ pc = "parse"
  /\ over_budget = FALSE
  /\ line_num = 0
  /\ object_count = 0
  /\ spec = AnimationSpec
  /\ exc = [type |-> "none", reason |-> "", line |-> 0]
  /\ object_positions = EmptyDict
  /\ object_moves = EmptyDict
  /\ total_frames = 0
  /\ frames = <<>>
  /\ video_bytes = FALSE
  /\ save_calls = 0
  /\ save_failed = FALSE
  /\ raised = NoException
  /\ response = NoResponse
  /\ call \in ScanInputs
  /\ result = NoScan(SplitLines(Strip(call.dsl_script)))

\* the command parser up to its loop: what it raises, or the command it
\* starts from with i = 1 (here 2)
ScanStart(command, tokens, num, count) ==
  IF command \in {"TEXT", "SHAPE"} /\ count + 1 > MAX_OBJECTS
  THEN Outcome("DSLValidationError", "TooManyObjects", None, 0)
  ELSE IF command = "TEXT"
  THEN IF tokens = <<>> THEN Outcome("DSLParseError", "TextWithoutContent", None, 0)
       ELSE Outcome("none", "", TextCommand(tokens[1], num), 2)
  ELSE IF command = "SHAPE"
  THEN IF tokens = <<>> THEN Outcome("DSLParseError", "ShapeWithoutType", None, 0)
       ELSE IF Upper(tokens[1]) \notin ALLOWED_SHAPE_TYPES
       THEN Outcome("DSLValidationError", "UnknownShapeType", None, 0)
       ELSE Outcome("none", "", ShapeCommand(Upper(tokens[1]), num), 2)
  ELSE IF Len(tokens) < 4 THEN Outcome("DSLParseError", "MoveTooFewTokens", None, 0)
       ELSE Outcome("none", "", MoveCommand(tokens[1], 0, 0, Num(FScale), "linear"), 2)

\* the exception leaves parse_dsl
ScanRaises(type, reason, line) ==
  /\ exc' = [type |-> type, reason |-> reason, line |-> line]
  /\ pc' = "raised"
  /\ result' = [NoScan(result.lines) EXCEPT !.returned = TRUE]

\* for line_num, line in enumerate(lines, 1): the next line, up to the loop
\* of its command parser
ReadLine ==
  /\ pc = "parse"
  /\ line_num < Len(result.lines)
  /\ line_num' = line_num + 1
  /\ \E line \in {Strip(result.lines[line_num + 1])} :
     \E tokens \in {tokenize_line(line)} :
     \E command \in {IF tokens = <<>> THEN "" ELSE Upper(tokens[1])} :
         IF line = "" \/ Ch(line, 1) = "#" \/ tokens = <<>>
         THEN UNCHANGED <<pc, object_count, spec, exc, result>>
         ELSE IF command \notin ALLOWED_COMMANDS
         THEN /\ ScanRaises("DSLParseError", "UnknownCommand", line_num + 1)
              /\ UNCHANGED <<object_count, spec>>
         ELSE IF command \in {"BACKGROUND", "FPS", "DURATION"}
         THEN \E r \in {Caught(ParseCommand(command, tokens, line_num + 1,
                                            object_count, spec))} :
                 /\ spec' = r.spec
                 /\ UNCHANGED object_count
                 /\ IF r.exc = "none" THEN UNCHANGED <<pc, exc, result>>
                    ELSE ScanRaises(r.exc, r.reason, line_num + 1)
         ELSE \E r \in {ScanStart(command, Tail(tokens), line_num + 1, object_count)} :
                 /\ object_count' = IF command = "MOVE" THEN object_count
                                    ELSE object_count + 1
                 /\ UNCHANGED spec
                 /\ IF r.exc = "none"
                    THEN /\ pc' = "scan"
                         /\ result' = [result EXCEPT !.command = command,
                                                     !.tokens = Tail(tokens),
                                                     !.i = r.i, !.cmd = r.cmd]
                         /\ UNCHANGED exc
                    ELSE ScanRaises(r.exc, r.reason, line_num + 1)
  /\ UNCHANGED <<op, over_budget, rendererVars, saveVars, raised, response, call>>

\* one iteration of the scan of the running command parser
ScanStepOf(command, tokens, i, cmd) ==
  IF command = "TEXT" THEN TextStep(tokens, i, cmd)
  ELSE IF command = "SHAPE" THEN ShapeStep(tokens, i, cmd)
  ELSE MoveStep(tokens, i, cmd)

\* while i < len(tokens): one iteration
ScanStep ==
  /\ pc = "scan"
  /\ result.i <= Len(result.tokens)
  /\ \E step \in {ScanStepOf(result.command, result.tokens, result.i, result.cmd)} :
     \E r \in {Caught(step)} :
       IF r.exc = "none"
       THEN /\ result' = [result EXCEPT !.i = r.i, !.cmd = r.cmd]
            /\ UNCHANGED <<pc, exc>>
       ELSE ScanRaises(r.exc, r.reason, line_num)
  /\ UNCHANGED <<op, over_budget, line_num, object_count, spec, rendererVars,
                 saveVars, raised, response, call>>

\* the loop of the command parser is over: it returns the command and
\* parse_dsl appends it
ScanReturns ==
  /\ pc = "scan"
  /\ result.i > Len(result.tokens)
  /\ spec' = IF result.command = "MOVE"
             THEN [spec EXCEPT !.moves = Append(@, result.cmd)]
             ELSE [spec EXCEPT !.objects = Append(@, result.cmd)]
  /\ pc' = "parse"
  /\ result' = NoScan(result.lines)
  /\ UNCHANGED <<op, over_budget, line_num, object_count, exc, rendererVars,
                 saveVars, raised, response, call>>

\* the lines are exhausted: the check of the frame count, then return spec
ParseDslReturns ==
  /\ pc = "parse"
  /\ line_num = Len(result.lines)
  /\ \E r \in {FinalCheck(spec)} :
       IF r.exc = "none"
       THEN /\ pc' = "returned"
            /\ result' = [NoScan(result.lines) EXCEPT !.returned = TRUE]
            /\ UNCHANGED exc
       ELSE ScanRaises(r.exc, r.reason, 0)
  /\ UNCHANGED <<op, over_budget, line_num, object_count, spec, rendererVars,
                 saveVars, raised, response, call>>

NextScan ==
  \/ ReadLine
  \/ ScanStep
  \/ ScanReturns
  \/ ParseDslReturns

\* the interpreter runs the call to its end: a step that can be taken is taken
SpecScan == InitScan /\ [][NextScan]_vars /\ WF_vars(NextScan)

(***************************************************************************)
(* Properties.                                                             *)
(***************************************************************************)
\* parse_dsl has returned its spec to the pipeline
ParseReturned ==
  /\ pc \notin {"idle", "translate", "check_script", "parse"}
  /\ exc.type = "none"
  /\ raised.message \notin {"Failed to generate animation script",
                            "Timeout during script generation"}

\* C1: every spec parse_dsl returns has fps in [1,24], 0 < duration <= 6 and
\* floor(fps * duration) <= 300, whatever FPS and DURATION lines the document
\* holds and wherever they stand.
C1_ReturnedSpecWithinLimits ==
  ParseReturned =>
    /\ spec.fps \in 1..24
    /\ spec.duration.k = "num"
    /\ spec.duration.m > 0
    /\ spec.duration.m <= 6 * FScale
    /\ (spec.fps * spec.duration.m) \div FScale <= 300

\* C1 witness: FPS 2 and DURATION 0.5 after a TEXT declared on line 1
C1_Witness ==
  /\ ParseReturned
  /\ line_num = 3
  /\ Len(spec.objects) = 1
  /\ spec.objects[1].obj_id = "text_1"
  /\ spec.fps = 2
  /\ spec.duration = Num(FScale \div 2)

\* C2: the counter counts the TEXT and SHAPE lines; the line that takes it
\* to 51 raises TooManyObjects at that line and ends the scan, so a spec never
\* holds more than 50 objects, and after every line processed without an
\* exception the counter is the number of objects appended.
C2_ObjectCap ==
  /\ Len(spec.objects) <= 50
  /\ exc.type = "none" => object_count = Len(spec.objects)
  /\ exc.type # "none" => object_count \in {Len(spec.objects), Len(spec.objects) + 1}
  /\ exc.reason = "TooManyObjects" => object_count = 51
  /\ object_count > 50 =>
       /\ exc.type = "DSLValidationError"
       /\ exc.reason = "TooManyObjects"
       /\ exc.line = line_num
       /\ Len(spec.objects) = 50
       /\ pc \in {"respond", "done"}

\* C2 witness: the 51st object line is line 53 of the document
C2_Witness ==
  /\ exc.reason = "TooManyObjects"
  /\ exc.line = 53
  /\ object_count = 51
  /\ Len(spec.objects) = 50

\* _prepare_movements has run
Prepared == pc \in {"render_frames", "encode", "check_render", "save"}

\* render_all_frames has run
Rendered == pc \in {"encode", "check_render", "save"}

PositionAt(id, frame) == get_position(object_positions, object_moves, id, frame)

\* C3 as stated: for every descriptor, frame 0 gives `from` and frame
\* end_frame gives `to`.
C3_BoundaryLawAsStated ==
  Prepared =>
    \A id \in DOMAIN object_moves :
       /\ PositionAt(id, 0) = object_moves[id].from
       /\ PositionAt(id, object_moves[id].end_frame) = object_moves[id].to

\* C3: for every descriptor, with any of the three easings, frame end_frame
\* gives exactly `to`, and frame 0 gives exactly `from` when end_frame >= 1;
\* a descriptor of end_frame 0 gives `to` from frame 0 on.
C3_BoundaryLaw ==
  Prepared =>
    \A id \in DOMAIN object_moves :
       /\ PositionAt(id, object_moves[id].end_frame) = object_moves[id].to
       /\ object_moves[id].end_frame >= 1 => PositionAt(id, 0) = object_moves[id].from
       /\ object_moves[id].end_frame = 0 => PositionAt(id, 0) = object_moves[id].to

\* C3 witness: an ease-out descriptor of several frames between two points
C3_Witness ==
  /\ Prepared
  /\ \E id \in DOMAIN object_moves :
        /\ object_moves[id].ease = "ease-out"
        /\ object_moves[id].end_frame >= 2
        /\ object_moves[id].from # object_moves[id].to
        /\ PositionAt(id, 1) \notin {object_moves[id].from, object_moves[id].to}

\* the centre render_frame gives object i (1-based) in the frame of index f
DrawnAt(i, f) == frames[f + 1][i + 1].at

\* object i moves by its own inline clause, for the whole animation
FullDurationMove(i) ==
  LET obj == spec.objects[i]
  IN  /\ obj.move_to # None
      /\ obj.move_duration = spec.duration
      /\ obj.obj_id \in DOMAIN object_moves
      /\ object_moves[obj.obj_id].from = <<obj.x, obj.y>>
      /\ object_moves[obj.obj_id].to = obj.move_to

\* C4 as stated: an object whose move lasts the whole animation is at its
\* declared position in frame 0 and at the move target in frame
\* total_frames - 1.
C4_FullDurationMoveReachesTarget ==
  Rendered =>
    \A i \in 1..Len(spec.objects) :
       FullDurationMove(i) =>
         /\ DrawnAt(i, 0) = <<spec.objects[i].x, spec.objects[i].y>>
         /\ DrawnAt(i, total_frames - 1) = spec.objects[i].move_to

\* the last index of seq whose element satisfies P, or 0
LastIndex(seq, P(_)) ==
  LET S == {i \in 1..Len(seq) : P(seq[i])}
  IN  IF S = {} THEN 0 ELSE CHOOSE i \in S : \A j \in S : j <= i

\* the last object declared with the id, the last of them that declares an
\* inline movement, and the last standalone MOVE on the id
LastObject(id) == LastIndex(spec.objects, LAMBDA o : o.obj_id = id)

LastInline(id) ==
  LastIndex(spec.objects,
            LAMBDA o : o.obj_id = id /\ o.move_to # None /\ FGt(o.move_duration, Num(0)))

LastMove(id) == LastIndex(spec.moves, LAMBDA m : m.obj_id = id)

DocumentIds ==
  {spec.objects[i].obj_id : i \in 1..Len(spec.objects)}
    \cup {spec.moves[i].obj_id : i \in 1..Len(spec.moves)}

\* C5: after _prepare_movements an id has one descriptor at most, and its
\* from, to, end_frame and ease are those of the last declaration processed for
\* the id: the last standalone MOVE on a declared id if there is one (the
\* MOVE commands come after all the objects), else the last inline MOVE TO
\* clause; an id with neither has no descriptor.
C5_LastDeclarationWins ==
  Prepared =>
    \A id \in DocumentIds :
       IF LastObject(id) # 0 /\ LastMove(id) # 0
       THEN LET m == spec.moves[LastMove(id)]
                t == spec.objects[LastObject(id)]
            IN  /\ id \in DOMAIN object_moves
                /\ object_moves[id].from = <<t.x, t.y>>
                /\ object_moves[id].to = <<m.to_x, m.to_y>>
                /\ object_moves[id].end_frame = EndFrame(m.duration, spec.fps)
                /\ object_moves[id].ease = m.ease
       ELSE IF LastInline(id) # 0
       THEN LET o == spec.objects[LastInline(id)]
            IN  /\ id \in DOMAIN object_moves
                /\ object_moves[id] =
                     Descriptor(<<o.x, o.y>>, o.move_to,
                                EndFrame(o.move_duration, spec.fps),
                                IF o.type = "shape" THEN o.ease ELSE "linear")
       ELSE id \notin DOMAIN object_moves

\* C5 witness: an inline MOVE TO clause and a standalone MOVE on one id
C5_Witness ==
  /\ Prepared
  /\ \E id \in DOMAIN object_moves :
        /\ LastInline(id) # 0
        /\ LastMove(id) # 0
        /\ spec.objects[LastInline(id)].move_to # object_moves[id].to

\* C6: the `from` of the descriptor a standalone MOVE builds is the
\* position declared for its target (that of the last object declared
\* with the id), whatever inline clause or MOVE came before on the id.
C6_MoveStartsAtDeclaredPosition ==
  Prepared =>
    \A id \in DocumentIds :
       LastObject(id) # 0 /\ LastMove(id) # 0 =>
         /\ id \in DOMAIN object_moves
         /\ object_moves[id].from =
              <<spec.objects[LastObject(id)].x, spec.objects[LastObject(id)].y>>

\* C6 witness: two standalone MOVE commands on a declared id
C6_Witness ==
  /\ Prepared
  /\ \E id \in DOMAIN object_moves :
        /\ LastObject(id) # 0
        /\ Len(spec.moves) = 2
        /\ spec.moves[1].obj_id = id
        /\ spec.moves[2].obj_id = id
        /\ <<spec.moves[1].to_x, spec.moves[1].to_y>> # object_moves[id].from

\* C7 as stated: an object whose id has no descriptor is drawn at its own
\* declared (x, y) in every frame.
C7_StaticObjectsStayInPlace ==
  Rendered =>
    \A i \in 1..Len(spec.objects) :
       spec.objects[i].obj_id \notin DOMAIN object_moves =>
         \A f \in 0..(total_frames - 1) :
            DrawnAt(i, f) = <<spec.objects[i].x, spec.objects[i].y>>

\* C8 as stated: in both operations the budget is checked at every stage
\* boundary, so no stage (parsing, rendering, persistence and return) starts
\* with the budget already spent.
C8_NoStageStartsOverBudget ==
  pc \in {"parse", "render_init", "save"} => ~over_budget

\* C9: save_video_metadata is called once at most and only with the encoded
\* video in hand; whether it raises or not, the operation returns the video
\* and the handler answers 200.
C9_SaveFailureSwallowed ==
  /\ save_calls <= 1
  /\ save_failed => save_calls = 1
  /\ save_calls = 1 => video_bytes /\ raised.type = "none"
  /\ pc = "done" /\ save_calls = 1 =>
       response.status = 200 /\ response.ok /\ response.video
  /\ pc = "done" /\ response.ok => save_calls = 1

\* C9 witness: save_video_metadata raised and the video was returned
C9_Witness ==
  /\ pc = "done"
  /\ save_failed
  /\ save_calls = 1
  /\ response.status = 200
  /\ response.video

TimeoutMessages ==
  {"Timeout during script generation", "Timeout during parsing",
   "Timeout during rendering"}

\* C10 as stated: a parse or validation error is answered with a 4xx status,
\* a rendering or encoding failure and a timeout with a 5xx status.
C10_FaultClasses ==
  pc = "done" =>
    /\ exc.type \in {"DSLParseError", "DSLValidationError"} =>
         response.status \in 400..499
    /\ raised.message \in TimeoutMessages \cup {"Rendering failed"} =>
         response.status \in 500..599

(***************************************************************************)
(* Properties of the functions called directly.                            *)
(***************************************************************************)
\* the call of fn has returned
Called(fn) == call.fn = fn /\ result.returned

\* parse_dsl has raised a DSLParseError
ParseErrorRaised == Called("parse_dsl") /\ result.value.exc = "DSLParseError"

\* the 1-based numbers, in the text as it stands, of the lines that raise a
\* parse error
ParseErrorLines(text) ==
  {k \in DOMAIN SplitLines(text) :
     ParseDslLine(SplitLines(text)[k], k, 0, AnimationSpec).exc = "DSLParseError"}

\* C11: every parse error raised by parse_dsl carries the 1-based number the
\* offending line has in the text as it was submitted, blank and comment
\* lines before it counted
C11_ParseErrorCarriesSubmittedLineNumber ==
  ParseErrorRaised =>
    /\ result.value.line \in ParseErrorLines(call.dsl_script)
    /\ \A k \in ParseErrorLines(call.dsl_script) : result.value.line <= k

\* what the code does: the number is counted in dsl_script.strip()
C11_ParseErrorCarriesStrippedLineNumber ==
  ParseErrorRaised =>
    /\ result.value.line \in ParseErrorLines(Strip(call.dsl_script))
    /\ \A k \in ParseErrorLines(Strip(call.dsl_script)) : result.value.line <= k

\* the lines parse_dsl enumerates
StrippedLines == SplitLines(Strip(call.dsl_script))

\* x is a number of the interval (0, MAX_DURATION]
InDurationRange(x) == FGt(x, Num(0)) /\ FLe(x, Num(MAX_DURATION * FScale))

\* raw is a line of the command with a value that int() (FPS) or float()
\* (DURATION) converts
RangedLine(raw, command) ==
  LET tokens == tokenize_line(Strip(raw))
  IN  /\ Len(tokens) >= 2
      /\ Upper(tokens[1]) = command
      /\ IF command = "FPS" THEN ParseInt(tokens[2]).ok ELSE ParseFloat(tokens[2]).ok

FpsOutOfRange(raw) ==
  RangedLine(raw, "FPS") /\ ParseInt(tokenize_line(Strip(raw))[2]).v \notin 1..MAX_FPS

DurationOutOfRange(raw) ==
  /\ RangedLine(raw, "DURATION")
  /\ ~InDurationRange(ParseFloat(tokenize_line(Strip(raw))[2]).v)

\* parse_dsl did not stop before line k
Reached(k) == result.value.line \notin 1..(k - 1)

RejectedAt(k) == result.value.exc = "DSLValidationError" /\ result.value.line = k

\* C12: an FPS line with an integer outside [1,24] or a DURATION line with a
\* value outside (0,6] makes parse_dsl fail with a validation error at that
\* line, whatever the later lines set
C12_OutOfRangeLineRejected ==
  Called("parse_dsl") =>
    \A k \in DOMAIN StrippedLines :
      (Reached(k) /\ (FpsOutOfRange(StrippedLines[k])
                      \/ DurationOutOfRange(StrippedLines[k])))
        => RejectedAt(k)

\* what the code does: the same for every value that compares with the limits
C12_ComparableOutOfRangeLineRejected ==
  Called("parse_dsl") =>
    \A k \in DOMAIN StrippedLines :
      (/\ Reached(k)
       /\ \/ FpsOutOfRange(StrippedLines[k])
          \/ /\ DurationOutOfRange(StrippedLines[k])
             /\ ParseFloat(tokenize_line(Strip(StrippedLines[k]))[2]).v # NaN)
        => RejectedAt(k)

\* s is '#' followed by six hexadecimal digits
HexColor(s) ==
  /\ Len(s) = 7
  /\ Ch(s, 1) = "#"
  /\ \A i \in 2..7 :
       Lower(Ch(s, i)) \in Digits \cup {"a", "b", "c", "d", "e", "f"}

\* the values that follow BACKGROUND, or a COLOR keyword of a TEXT or SHAPE
\* line
ColorValues(raw) ==
  LET tokens == tokenize_line(Strip(raw))
  IN  IF tokens = <<>> \/ Ch(Strip(raw), 1) = "#" THEN {}
      ELSE IF Upper(tokens[1]) = "BACKGROUND"
      THEN {tokens[i] : i \in {2} \cap DOMAIN tokens}
      ELSE IF Upper(tokens[1]) \in {"TEXT", "SHAPE"}
      THEN {tokens[i + 1] : i \in {j \in 2..(Len(tokens) - 1) : Upper(tokens[j]) = "COLOR"}}
      ELSE {}

\* parse_dsl has returned a spec
SpecReturned == Called("parse_dsl") /\ result.value.exc = "none"

Min2(a, b) == IF a < b THEN a ELSE b

Max2(a, b) == IF a > b THEN a ELSE b

\* the pair lies on the largest canvas
OnCanvas(x, y) == x \in 0..MAX_WIDTH /\ y \in 0..MAX_HEIGHT

\* C14: clamp_coord(x, M) = min(max(x, 0), M) for M >= 0 and clamping twice
\* is clamping once; every declared position, inline move target and MOVE
\* target of a returned spec lies in [0,1280] x [0,720]
C14_CoordinatesClamped ==
  /\ (Called("clamp_coord") /\ call.max_val >= 0) =>
       /\ result.value = Min2(Max2(call.val, 0), call.max_val)
       /\ clamp_coord(result.value, call.max_val) = result.value
  /\ SpecReturned =>
       /\ \A i \in DOMAIN result.value.spec.objects :
            LET o == result.value.spec.objects[i]
            IN  /\ OnCanvas(o.x, o.y)
                /\ o.move_to # None => OnCanvas(o.move_to[1], o.move_to[2])
       /\ \A i \in DOMAIN result.value.spec.moves :
            OnCanvas(result.value.spec.moves[i].to_x, result.value.spec.moves[i].to_y)

\* a position right of and above the canvas with a target left of and below
\* it, and a MOVE beyond the far corner
C14_Witness ==
  /\ SpecReturned
  /\ call.dsl_script =
       "SHAPE RECT ID r AT 2000,-5 MOVE TO -1,9999 DUR 1\nMOVE a TO 9,9 DUR 1"
  /\ result.value.spec.objects[1].x = MAX_WIDTH
  /\ result.value.spec.objects[1].y = 0
  /\ result.value.spec.objects[1].move_to = <<0, MAX_HEIGHT>>
  /\ Len(result.value.spec.moves) = 1

\* the positions of the double quotes of the line
QuotePositions(line) == {i \in 1..Len(line) : Ch(line, i) = "\""}

\* position i of the line is inside a quoted span: an odd number of quotes
\* stands before it
Quoted(line, i) == Cardinality({j \in QuotePositions(line) : j < i}) % 2 = 1

\* the characters of the line from position i on, without the quotes and
\* the spaces outside quoted spans
RECURSIVE KeptFrom(_, _)
KeptFrom(line, i) ==
  IF i > Len(line) THEN ""
  ELSE (IF Ch(line, i) = "\"" \/ (Ch(line, i) = " " /\ ~Quoted(line, i))
        THEN "" ELSE Ch(line, i)) \o KeptFrom(line, i + 1)

RECURSIVE Concat(_)
Concat(tokens) == IF tokens = <<>> THEN "" ELSE Head(tokens) \o Concat(Tail(tokens))

\* the quoted spans of the line as <<opening quote, position after the span>>:
\* the closing quote, or the end of the line for a span left open
QuotedSpans(line) ==
  {<<p, q>> \in QuotePositions(line) \X (QuotePositions(line) \cup {Len(line) + 1}) :
     /\ ~Quoted(line, p)
     /\ p < q
     /\ \A j \in QuotePositions(line) : ~(p < j /\ j < q)}

IsSuffix(s, t) == Len(s) <= Len(t) /\ SubSeq(t, Len(t) - Len(s) + 1, Len(t)) = s

\* C15: tokenize_line returns the tokens in source order; no token contains
\* a double quote, a space is inside a token only where it was inside a
\* quoted span, each quoted span stays within one token with its spaces, and
\* unquoted spaces produce no empty token; TEXT "Hello World" AT 10,10
\* yields TEXT, Hello World, AT, 10,10
C15_TokenizeLine ==
  Called("tokenize_line") =>
    LET line == call.line
        tokens == result.value
    IN  /\ \A k \in DOMAIN tokens : \A i \in 1..Len(tokens[k]) : Ch(tokens[k], i) # "\""
        /\ Concat(tokens) = KeptFrom(line, 1)
        /\ \A s \in QuotedSpans(line) :
             s[1] + 1 < s[2] =>
               \E k \in DOMAIN tokens :
                 IsSuffix(SubSeq(line, s[1] + 1, s[2] - 1), tokens[k])
        /\ Cardinality({k \in DOMAIN tokens : tokens[k] = ""})
             <= Cardinality({s \in QuotedSpans(line) :
                               s[1] + 1 = s[2] /\ s[2] <= Len(line)})
        /\ line = "TEXT \"Hello World\" AT 10,10" =>
             tokens = <<"TEXT", "Hello World", "AT", "10,10">>

\* the line of the example has been tokenized
C15_Witness ==
  /\ Called("tokenize_line")
  /\ call.line = "TEXT \"Hello World\" AT 10,10"
  /\ Len(result.value) = 4
  /\ result.value[2] = "Hello World"

\* the command of a line, "" for a blank line or a comment
LineCommand(raw) ==
  LET line == Strip(raw)
      tokens == tokenize_line(line)
  IN  IF line = "" \/ Ch(line, 1) = "#" \/ tokens = <<>> THEN ""
      ELSE Upper(tokens[1])

\* the positions of the EASE keywords that have a value after them
EaseClauses(raw) ==
  LET tokens == tokenize_line(Strip(raw))
  IN  {j \in 2..(Len(tokens) - 1) : Upper(tokens[j]) = "EASE"}

\* the (lower-cased) value of the last EASE clause of the line
LastEaseValue(raw) ==
  LET tokens == tokenize_line(Strip(raw))
      last == CHOOSE j \in EaseClauses(raw) : \A m \in EaseClauses(raw) : m <= j
  IN  Lower(tokens[last + 1])

\* a SHAPE or MOVE line whose last EASE clause names no easing
UnknownEaseLine(raw) ==
  /\ LineCommand(raw) \in {"SHAPE", "MOVE"}
  /\ EaseClauses(raw) # {}
  /\ LastEaseValue(raw) \notin {"linear", "ease-in", "ease-out"}

\* how many of the lines 1..k carry one of the commands
CommandsUpTo(k, commands) ==
  Cardinality({j \in 1..k : LineCommand(StrippedLines[j]) \in commands})

\* the command parse_dsl built from line k of a document it accepted
CommandOfLine(k) ==
  IF LineCommand(StrippedLines[k]) = "MOVE"
  THEN result.value.spec.moves[CommandsUpTo(k, {"MOVE"})]
  ELSE result.value.spec.objects[CommandsUpTo(k, {"TEXT", "SHAPE"})]

\* C16: a SHAPE or MOVE line with an EASE keyword followed by a value other
\* than linear, ease-in and ease-out raises no error and its command's ease
\* is linear, also when an earlier EASE clause of the line is recognized
C16_UnknownEaseIsLinear ==
  Called("parse_dsl") =>
    \A k \in DOMAIN StrippedLines :
      (Reached(k) /\ UnknownEaseLine(StrippedLines[k])) =>
        /\ result.value.line # k
        /\ SpecReturned => CommandOfLine(k).ease = "linear"

\* what the code does: the same on the lines with one EASE clause, and on
\* every MOVE line
C16_UnknownEaseIsLinearUnlessSetBefore ==
  Called("parse_dsl") =>
    \A k \in DOMAIN StrippedLines :
      (/\ Reached(k)
       /\ UnknownEaseLine(StrippedLines[k])
       /\ \/ LineCommand(StrippedLines[k]) = "MOVE"
          \/ Cardinality(EaseClauses(StrippedLines[k])) = 1) =>
        /\ result.value.line # k
        /\ SpecReturned => CommandOfLine(k).ease = "linear"

(***************************************************************************)
(* Properties of the renderer's arithmetic.                                *)
(***************************************************************************)
\* round(n / d) for d > 0: the nearest integer, the even one at a tie
RoundDiv(n, d) ==
  LET q == n \div d
      r == n - q * d
  IN  IF 2 * r < d THEN q
      ELSE IF 2 * r > d THEN q + 1
      ELSE IF q % 2 = 0 THEN q ELSE q + 1

\* ease(f / end_frame) as a fraction: t, t*t, 1 - (1-t)*(1-t)
EasedProgress(ease, f, end_frame) ==
  CASE ease = "ease-in" -> [num |-> f * f, den |-> end_frame * end_frame]
    [] ease = "ease-out" ->
         [num |-> end_frame * end_frame - (end_frame - f) * (end_frame - f),
          den |-> end_frame * end_frame]
    [] OTHER -> [num |-> f, den |-> end_frame]

\* round(from + (to - from) * t) on one axis
RoundedAxis(a, b, t) == RoundDiv(a * t.den + (b - a) * t.num, t.den)

\* int(from + (to - from) * t) on one axis
TruncatedAxis(a, b, t) == TruncDiv(a * t.den + (b - a) * t.num, t.den)

\* C17: between frame 0 and end_frame the position is, per axis,
\* round(from + (to - from) * ease(f / end_frame)); from end_frame on it is
\* exactly `to`
C17_RoundedInterpolation ==
  Prepared =>
    \A id \in DOMAIN object_moves :
      LET move == object_moves[id]
      IN  \A f \in 1..(move.end_frame + 1) :
            LET t == EasedProgress(move.ease, f, move.end_frame)
            IN  IF f < move.end_frame
                THEN PositionAt(id, f) =
                       <<RoundedAxis(move.from[1], move.to[1], t),
                         RoundedAxis(move.from[2], move.to[2], t)>>
                ELSE PositionAt(id, f) = move.to

\* what the code does: the interpolated value is cut to its integer part
C17_TruncatedInterpolation ==
  Prepared =>
    \A id \in DOMAIN object_moves :
      LET move == object_moves[id]
      IN  \A f \in 1..(move.end_frame + 1) :
            LET t == EasedProgress(move.ease, f, move.end_frame)
            IN  IF f < move.end_frame
                THEN PositionAt(id, f) =
                       <<TruncatedAxis(move.from[1], move.to[1], t),
                         TruncatedAxis(move.from[2], move.to[2], t)>>
                ELSE PositionAt(id, f) = move.to

\* the moves that can have produced the descriptor of id: the inline moves
\* of the objects with the id and the standalone MOVE commands on it, as
\* <<duration, target>>
MovesOf(id) ==
  {<<spec.objects[i].move_duration, spec.objects[i].move_to>> :
     i \in {j \in DOMAIN spec.objects :
              spec.objects[j].obj_id = id /\ spec.objects[j].move_to # None}}
  \cup {<<spec.moves[i].duration, <<spec.moves[i].to_x, spec.moves[i].to_y>>>> :
          i \in {j \in DOMAIN spec.moves : spec.moves[j].obj_id = id}}

\* round(duration * fps)
RoundedFrames(duration, fps) == RoundDiv(duration.m * fps, FScale)

\* int(duration * fps)
TruncatedFrames(duration, fps) == TruncDiv(duration.m * fps, FScale)

\* C18: every motion descriptor has start_frame = 0 and end_frame =
\* round(duration * fps), with the duration of the move that produced it and
\* the final fps of the spec, for inline moves and MOVE commands alike
C18_EndFrameRounded ==
  Prepared =>
    \A id \in DOMAIN object_moves :
      /\ object_moves[id].start_frame = 0
      /\ \E m \in MovesOf(id) :
           /\ object_moves[id].to = m[2]
           /\ object_moves[id].end_frame = RoundedFrames(m[1], spec.fps)

\* what the code does: end_frame is the integer part of duration * fps
C18_EndFrameTruncated ==
  Prepared =>
    \A id \in DOMAIN object_moves :
      /\ object_moves[id].start_frame = 0
      /\ \E m \in MovesOf(id) :
           /\ object_moves[id].to = m[2]
           /\ object_moves[id].end_frame = TruncatedFrames(m[1], spec.fps)

\* the float is a number between lo / FScale and hi / FScale
DurationWithin(d, lo, hi) == d.k = "num" /\ lo <= d.m /\ d.m <= hi

\* C19: in a returned spec every text size is in [8,200], every shape radius
\* in [1,500], every shape width and height at most 1280 and 720, every
\* inline move duration in [0,6] and every MOVE duration in [0.1,6]
C19_NumericFieldsClamped ==
  SpecReturned =>
    /\ \A i \in DOMAIN result.value.spec.objects :
         LET o == result.value.spec.objects[i]
         IN  /\ o.type = "text" => o.size \in 8..200
             /\ o.type = "shape" =>
                  /\ o.radius \in 1..500
                  /\ o.width <= MAX_WIDTH
                  /\ o.height <= MAX_HEIGHT
             /\ DurationWithin(o.move_duration, 0, MAX_DURATION * FScale)
    /\ \A i \in DOMAIN result.value.spec.moves :
         DurationWithin(result.value.spec.moves[i].duration,
                        FScale \div 10, MAX_DURATION * FScale)

\* a MOVE whose DUR is nan, after a shape that keeps its default radius
C19_Witness ==
  /\ SpecReturned
  /\ call.dsl_script = "SHAPE CIRCLE ID a AT 5,5\nMOVE a TO 1,1 DUR nan"
  /\ result.value.spec.objects[1].radius = 20
  /\ result.value.spec.moves[1].duration = Num(FScale \div 10)

(***************************************************************************)
(* The order of the objects, from the document to the frame.               *)
(***************************************************************************)
\* a step of the parser leaves spec.objects alone or, on reading one more
\* line, puts one TEXT or SHAPE command after the ones it holds
ObjectsAppendedInLineOrder ==
  \/ spec.objects' = spec.objects
  \/ /\ line_num' = line_num + 1
     /\ Len(spec.objects') = Len(spec.objects) + 1
     /\ SubSeq(spec.objects', 1, Len(spec.objects)) = spec.objects
     /\ spec.objects'[Len(spec.objects')].type \in {"text", "shape"}

\* what is painted for the object
PaintOf(obj) ==
  IF obj.type = "text" THEN "text"
  ELSE IF obj.shape_type = "CIRCLE" THEN "circle" ELSE "rect"

\* every frame is the background, then object 1, 2, ... of spec.objects each
\* at its position in that frame, then the watermark
FramesPaintedInOrder ==
  Rendered =>
    \A f \in DOMAIN frames :
      /\ Len(frames[f]) = Len(spec.objects) + 2
      /\ frames[f][1].op = "background"
      /\ frames[f][Len(frames[f])].op = "watermark"
      /\ \A i \in DOMAIN spec.objects :
           /\ frames[f][i + 1].index = i
           /\ frames[f][i + 1].op = PaintOf(spec.objects[i])
           /\ frames[f][i + 1].at = PositionAt(spec.objects[i].obj_id, f - 1)

\* C20: spec.objects holds the TEXT and SHAPE commands in the order of their
\* lines, and every frame is painted background first, then the objects in
\* that order, then the watermark
C20_PaintOrder == [][ObjectsAppendedInLineOrder]_vars /\ []FramesPaintedInOrder

\* a rendered document of a rectangle, then a text, then a circle
C20_Witness ==
  /\ Rendered
  /\ total_frames >= 2
  /\ Len(spec.objects) = 3
  /\ <<frames[2][2].op, frames[2][3].op, frames[2][4].op>> = <<"rect", "text", "circle">>
  /\ frames[2][5].op = "watermark"

(***************************************************************************)
(* The frames of an accepted document.                                     *)
(***************************************************************************)
\* C22: every spec parse_dsl returns has at least one frame to render:
\* total_frames = floor(fps * duration) >= 1
C22_ReturnedSpecHasAFrame ==
  SpecReturned =>
    /\ TotalFrames(result.value.spec).ok
    /\ TotalFrames(result.value.spec).v >= 1

\* what the code does: the frame count of a returned spec is a number from
\* 0 to MAX_FRAMES
C22_ReturnedSpecFrameCount ==
  SpecReturned =>
    /\ TotalFrames(result.value.spec).ok
    /\ TotalFrames(result.value.spec).v \in 0..MAX_FRAMES

Between(a, v, b) == (a <= v /\ v <= b) \/ (b <= v /\ v <= a)

\* C23: in every frame, each axis of the position of an object with a motion
\* descriptor lies between the descriptor's `from` and `to`, so no position
\* overshoots and every drawn position is in [0,1280] x [0,720]
C23_PositionsBetweenEnds ==
  /\ Prepared =>
       \A id \in DOMAIN object_moves :
         \A f \in 0..(object_moves[id].end_frame + 1) :
           /\ Between(object_moves[id].from[1], PositionAt(id, f)[1],
                      object_moves[id].to[1])
           /\ Between(object_moves[id].from[2], PositionAt(id, f)[2],
                      object_moves[id].to[2])
           /\ OnCanvas(PositionAt(id, f)[1], PositionAt(id, f)[2])
  /\ Rendered =>
       \A f \in DOMAIN frames :
         \A i \in DOMAIN spec.objects :
           spec.objects[i].obj_id \in DOMAIN object_moves =>
             LET move == object_moves[spec.objects[i].obj_id]
                 at == frames[f][i + 1].at
             IN  /\ Between(move.from[1], at[1], move.to[1])
                 /\ Between(move.from[2], at[2], move.to[2])
                 /\ OnCanvas(at[1], at[2])

\* an ease-in descriptor drawn strictly between its ends on both axes
C23_Witness ==
  /\ Rendered
  /\ \E i \in DOMAIN spec.objects :
       /\ spec.objects[i].obj_id \in DOMAIN object_moves
       /\ object_moves[spec.objects[i].obj_id].ease = "ease-in"
       /\ \E f \in DOMAIN frames :
            LET move == object_moves[spec.objects[i].obj_id]
                at == frames[f][i + 1].at
            IN  /\ at[1] \notin {move.from[1], move.to[1]}
                /\ at[2] \notin {move.from[2], move.to[2]}

(***************************************************************************)
(* MOVE commands on ids no object declares.                                *)
(***************************************************************************)
DeclaredIds == {spec.objects[i].obj_id : i \in DOMAIN spec.objects}

\* the ids MOVE commands name and no object declares
StrayIds ==
  {spec.moves[i].obj_id : i \in DOMAIN spec.moves} \ DeclaredIds

\* the spec of the same document without the MOVE lines on undeclared ids
WithoutStrayMoves ==
  [spec EXCEPT !.moves = SelectSeq(@, LAMBDA m : m.obj_id \in DeclaredIds)]

\* the MOVE lines a document is drawn from
MoveLines == {raw \in RichLines : LineCommand(raw) = "MOVE"}

\* each MOVE line as parse_dsl reads it in an empty document
MoveLinesAlone == [raw \in MoveLines |-> ParseDslLine(raw, 1, 0, AnimationSpec)]

\* the well-formed MOVE lines on an id that no object read so far declares
StrayMoveLines ==
  {raw \in MoveLines :
     /\ MoveLinesAlone[raw].exc = "none"
     /\ MoveLinesAlone[raw].spec.moves[1].obj_id \notin DeclaredIds}

\* the parser reads the MOVE line as it reads it in an empty document: no
\* exception, the same command put after the moves of the spec, the objects
\* left alone
StrayMoveAccepted(raw) ==
  LET r == ParseDslLine(raw, line_num + 1, object_count, spec)
  IN  /\ r.exc = "none"
      /\ r.spec.moves = Append(spec.moves, MoveLinesAlone[raw].spec.moves[1])
      /\ r.spec.objects = spec.objects

\* the registries and the frames are the ones the renderer builds from sp
RendererStateOf(sp, reg) ==
  /\ Prepared =>
       /\ object_positions = reg.object_positions
       /\ object_moves = reg.object_moves
  /\ Rendered =>
       frames = render_all_frames(sp, reg.object_positions, reg.object_moves,
                                  total_frames)

\* C24: a MOVE whose target id matches no declared object is accepted and
\* ignored: it raises no error, creates no descriptor and no registry entry,
\* and leaves the position of every declared object in every frame as it is
\* without the MOVE
C24_StrayMoveIgnored ==
  /\ pc = "parse" => \A raw \in StrayMoveLines : StrayMoveAccepted(raw)
  /\ (Prepared /\ StrayIds # {}) =>
       /\ \A id \in StrayIds :
            id \notin DOMAIN object_moves /\ id \notin DOMAIN object_positions
       /\ RendererStateOf(WithoutStrayMoves, prepare_movements(WithoutStrayMoves))

\* a rendered document with a moving object and a MOVE on an undeclared id
C24_Witness ==
  /\ Rendered
  /\ StrayIds # {}
  /\ DOMAIN object_moves # {}
  /\ total_frames >= 2

(***************************************************************************)
(* Termination of parse_dsl.                                               *)
(***************************************************************************)
\* the call of parse_dsl has ended, with the spec or with an exception
ParseDslEnded == pc \in {"returned", "raised"}

\* an iteration of the scan moves the index forward by 1, 2 or 3 and never
\* beyond the position after the last token; from the last token it moves by
\* 1 and leaves the command as it is
ScanAdvances ==
  (pc = "scan" /\ pc' = "scan" /\ result' # result) =>
    /\ result'.tokens = result.tokens /\ result'.command = result.command
    /\ result'.i - result.i \in {1, 2, 3}
    /\ result'.i <= Len(result.tokens) + 1
    /\ result.i = Len(result.tokens) => result'.cmd = result.cmd

\* a token in last position ends the scan without an exception
LastTokenSkipped ==
  (pc = "scan" /\ result.i = Len(result.tokens)) => pc' = "scan"

\* the lines are taken one by one in order, none of them while a command
\* parser runs, and the line number never goes back
LinesReadInOrder ==
  /\ line_num' \in {line_num, line_num + 1}
  /\ line_num' <= Len(result.lines)
  /\ line_num' = line_num + 1 => pc = "parse"

\* when the call has ended, it has ended as parse_dsl ends on the document
ScanComputesParseDsl ==
  ParseDslEnded =>
    LET r == parse_dsl(call.dsl_script)
    IN  /\ exc.type = r.exc /\ exc.line = r.line
        /\ pc = "returned" <=> r.exc = "none"
        /\ pc = "returned" => spec = r.spec

\* C25: parse_dsl terminates on every finite document: every iteration of
\* the keyword scan of TEXT, SHAPE and MOVE moves the token index forward by
\* 1, 2 or 3, a keyword in last position without a value is skipped and not
\* read past the end, each line is processed at most once and in order, and
\* the call ends
C25_ParseDslTerminates ==
  /\ [][ScanAdvances /\ LastTokenSkipped /\ LinesReadInOrder]_vars
  /\ <>ParseDslEnded

\* a call that ended after a scan skipped a keyword in last position, on a
\* line that is not the first
C25_Witness ==
  /\ pc = "returned"
  /\ line_num >= 2
  /\ \E k \in DOMAIN spec.objects : spec.objects[k].color = "#FF0000"

====
